---------------------------- MODULE Spec2Model ----------------------------
(***************************************************************************)
(* Market-Data-Automation: the cleaning / deduplication / persistence      *)
(* pipeline (transform_data.py, storage.py) and the threshold evaluator    *)
(* (alerts.py), as state machines.                                         *)
(*                                                                         *)
(* The specifications that share the module:                               *)
(*   Spec          the SQLite store and the callers of save_to_database    *)
(*   SpecDedupe    DataTransformer.remove_duplicates applied to its inputs *)
(*   SpecClean     DataTransformer.clean_and_standardize applied to a      *)
(*                 batch                                                   *)
(*   SpecTransform transform_market_data: clean, then dedupe               *)
(*   SpecAlerts    AlertManager.check_multiple / check_thresholds          *)
(*   SpecRun       one invocation of main() (main.py)                      *)
(*   SpecApi       the read path, statistics and retention of DataStorage  *)
(*   SpecFetch     fetch_multiple and the retries of fetch_quote           *)
(***************************************************************************)
EXTENDS Integers, Sequences, FiniteSets, TLC

VARIABLES
    \* ---- alerts.py -------------------------------------------------------
    thresholds,     \* AlertManager.thresholds: symbol -> [min, max]
    quotes,         \* the argument of check_multiple
    now,            \* the UTC clock read by datetime.utcnow()
    ev_pc,          \* "idle" | "loop": position inside check_multiple
    qi,             \* number of quotes the loop of check_multiple has handled
    alerts,         \* result of the last check_thresholds call
    all_alerts,     \* accumulator / result of check_multiple
    prev_alerts,    \* result of the previous check_multiple call
    n_calls,        \* completed check_multiple calls
    \* ---- transform_data.py: clean_and_standardize ------------------------
    raw_data,       \* the argument of clean_and_standardize
    clean_result,   \* its outcome: [status, rows]; status "none" before the call
    \* ---- transform_data.py: remove_duplicates ----------------------------
    dd_df,          \* the argument df
    dd_existing,    \* the argument existing_df: [given, rows]
    dd_pc,          \* "start" | "deduped" | "done"; in transform_market_data
                    \* "start" | "cleaned" | "raised" | "done"
    dd_out,         \* the local df, and the result once dd_pc = "done"
    \* ---- storage.py and the processes that use the store -----------------
    market_data,    \* the committed rows of table market_data, in id order
    txn,            \* the rows of the open write transaction
    db_lock,        \* the process that holds SQLite's write lock, or "none"
    pc,             \* per process: where it is
    existing_data,  \* per process: the frame load_from_database returned
    df,             \* per process: the frame given to save_to_database
    idx,            \* per process: rows the fallback loop has handled
    saved_count,    \* per process: the counter of the fallback loop
    ret,            \* per process: what save_to_database returned last
    path,           \* per process: "empty" | "bulk" | "fallback", the last call's way
    n_saves,        \* per process: finished save_to_database calls on df
    csv_file,       \* the rows of the flat file, in the order they were appended
    \* history, for the properties only
    stored_before,  \* per process: the keys stored when its first call began
    disturbed,      \* per process: another process wrote since then
    \* ---- main.py: one invocation of main() ------------------------------
    run_pc,         \* where main() / MarketDataAutomation.run is
    env,            \* what the run finds: configuration, store and channels
    clean_data,     \* the local clean_data of run
    run_saved,      \* the local saved_count of run
    run_alerts,     \* the local alerts of run
    delivered,      \* the channels send_alerts has delivered to
    run_error,      \* the exception that ended the run, or "none"
    success,        \* what run returned: "none" | "True" | "False"
    exit_status,    \* the argument of sys.exit, or -1
    \* ---- storage.py: the calls of a single user of DataStorage -----------
    api_op,         \* the last call: [name, ...arguments]
    api_ret,        \* what it returned
    n_ops,          \* calls made
    \* ---- fetch_data.py: fetch_multiple and fetch_quote -------------------
    fm_i,           \* fetch_multiple: index of the symbol being fetched
    fq_pc,          \* "call" | "attempt" | "sleep" | "pause" | "done"
    attempt,        \* fetch_quote: the loop variable
    calls,          \* per symbol index: calls of the provider made
    slept,          \* per symbol index: seconds slept between attempts
    last_error,     \* per symbol index: what the last call of the provider raised
    results         \* fetch_multiple: the quotes appended so far

alertVars == <<thresholds, quotes, ev_pc, qi, alerts, all_alerts,
               prev_alerts, n_calls>>
cleanVars == <<raw_data, clean_result>>
dedupeVars == <<dd_df, dd_existing, dd_pc, dd_out>>
runVars == <<run_pc, env, clean_data, run_saved, run_alerts, delivered, run_error,
             success, exit_status>>
alertCallVars == <<quotes, ev_pc, qi, alerts, all_alerts, prev_alerts, n_calls>>
procVars == <<txn, db_lock, pc, existing_data, df, idx, saved_count, ret, path,
              n_saves, stored_before, disturbed>>
storeVars == <<market_data, txn, db_lock, pc, existing_data, df, idx, saved_count,
               ret, path, n_saves, csv_file, stored_before, disturbed>>
apiVars == <<api_op, api_ret, n_ops>>
fetchVars == <<fm_i, fq_pc, attempt, calls, slept, last_error, results>>

vars == <<thresholds, quotes, now, ev_pc, qi, alerts, all_alerts,
          prev_alerts, n_calls, raw_data, clean_result,
          dd_df, dd_existing, dd_pc, dd_out,
          market_data, txn, db_lock, pc, existing_data, df, idx, saved_count,
          ret, path, n_saves, csv_file, stored_before, disturbed,
          run_pc, env, clean_data, run_saved, run_alerts, delivered, run_error,
          success, exit_status, api_op, api_ret, n_ops,
          fm_i, fq_pc, attempt, calls, slept, last_error, results>>

-----------------------------------------------------------------------------
(* Bounds of the model.                                                    *)
MaxQuotes == 2
MaxClock == 1
MaxRaw == 2
MaxDf == 3
MaxExisting == 2
MaxBatch == 2
MaxStored == 1
MaxFetched == 2
MaxApiStored == 2
MaxApiBatch == 1
MaxOps == 2

-----------------------------------------------------------------------------
(* Python values.  A dict field is a record [kind, n, s]: a missing key    *)
(* ("absent"), None, a number or a string.                                 *)
Absent == [kind |-> "absent", n |-> 0, s |-> ""]
None == [kind |-> "none", n |-> 0, s |-> ""]
Num(x) == [kind |-> "num", n |-> x, s |-> ""]
Str(x) == [kind |-> "str", n |-> 0, s |-> x]
\* float('nan') and float('inf')
NaN == [kind |-> "nan", n |-> 0, s |-> ""]
Inf == [kind |-> "inf", n |-> 0, s |-> ""]

SeqsUpTo(S, n) == UNION {[1..k -> S] : k \in 0..n}

\* dict.get(key): None for a missing key.
Get(d, k) == IF d[k].kind = "absent" THEN None ELSE d[k]
\* dict.get(key, default)
GetDefault(d, k, dflt) == IF d[k].kind = "absent" THEN dflt ELSE d[k]
\* Python truthiness of a value: `not v`.
Falsy(v) ==
    \/ v.kind \in {"absent", "none"}
    \/ v.kind = "str" /\ v.s = ""
    \/ v.kind = "num" /\ v.n = 0

\* datetime.utcnow().isoformat() at clock value t.
Digits == <<"0", "1", "2", "3", "4", "5", "6", "7", "8", "9">>
utcnow_isoformat(t) == "2024-02-10T10:00:0" \o Digits[t + 1]

-----------------------------------------------------------------------------
(* alerts.py: AlertManager.check_thresholds, lines 35-88.                  *)

BelowAlert(symbol, price, th, quote_data, t) ==
    [symbol |-> symbol,
     current_price |-> price,
     threshold_type |-> "BELOW_MINIMUM",
     threshold_value |-> th.min,
     message |-> <<"ALERT", symbol.s, "fell below", th.min.n, "Current", price.n>>,
     timestamp |-> GetDefault(quote_data, "timestamp", Str(utcnow_isoformat(t))),
     severity |-> "HIGH"]

AboveAlert(symbol, price, th, quote_data, t) ==
    [symbol |-> symbol,
     current_price |-> price,
     threshold_type |-> "ABOVE_MAXIMUM",
     threshold_value |-> th.max,
     message |-> <<"ALERT", symbol.s, "exceeded", th.max.n, "Current", price.n>>,
     timestamp |-> GetDefault(quote_data, "timestamp", Str(utcnow_isoformat(t))),
     severity |-> "HIGH"]

\* A minimum check that also fires at the bound (price <= min).
MinCheckAtBound(symbol, price, th, quote_data, t) ==
    IF th.min.kind # "none" /\ price.n <= th.min.n
    THEN <<BelowAlert(symbol, price, th, quote_data, t)>>
    ELSE <<>>

\* lines 58-71: the minimum check
MinCheck(symbol, price, th, quote_data, t) ==
    IF th.min.kind # "none" /\ price.n < th.min.n
    THEN <<BelowAlert(symbol, price, th, quote_data, t)>>
    ELSE <<>>

\* lines 73-86: the maximum check
MaxCheck(symbol, price, th, quote_data, t) ==
    IF th.max.kind # "none" /\ price.n > th.max.n
    THEN <<AboveAlert(symbol, price, th, quote_data, t)>>
    ELSE <<>>

check_thresholds(quote_data, ths, t) ==
    LET symbol == Get(quote_data, "symbol")
        price == Get(quote_data, "price")
    IN  IF Falsy(symbol) \/ price.kind = "none" THEN <<>>
        ELSE IF symbol.s \notin DOMAIN ths THEN <<>>
        ELSE LET th == ths[symbol.s]
             IN  MinCheck(symbol, price, th, quote_data, t)
                 \o MaxCheck(symbol, price, th, quote_data, t)

\* An accumulator that puts the new events in front.
ExtendFront(acc, new) == new \o acc

\* line 104: all_alerts.extend(alerts)
Extend(acc, new) == acc \o new

-----------------------------------------------------------------------------
(* transform_data.py: DataTransformer.clean_and_standardize, lines 21-107. *)
(* A raw quote is a dict over the (lower-cased, stripped: line 45) keys    *)
(* symbol, price, volume, timestamp, provider; a key the dict lacks holds  *)
(* Absent.  A frame row is the same record with every field a value.       *)

Fields == {"symbol", "price", "volume", "timestamp", "provider"}

\* pandas isna(): a missing key becomes NaN in pd.DataFrame(raw_data).
IsNa(v) == v.kind \in {"absent", "none", "nan"}

\* The numbers the strings of the model spell.
NumericStrings == {"150", "0", "-5"}
ParseNumber(s) == IF s = "150" THEN 150 ELSE IF s = "0" THEN 0 ELSE -5

\* pd.to_numeric(value, errors='coerce')
to_numeric(v) ==
    IF v.kind \in {"num", "inf"} THEN v
    ELSE IF v.kind = "str" /\ v.s \in NumericStrings THEN Num(ParseNumber(v.s))
    ELSE NaN

\* The timestamps datetime.fromisoformat accepts, after replace('Z', '+00:00'),
\* and what isoformat() returns for them (no conversion to UTC is made).
IsoStrings ==
    {"2024-02-10T09:00:00", "2024-02-10T10:00:00", "2024-02-10T10:00:00Z",
     "2024-02-10T10:00:00+00:00", "2024-02-10T12:00:00+02:00"}
ReplaceZ(s) == IF s = "2024-02-10T10:00:00Z" THEN "2024-02-10T10:00:00+00:00" ELSE s

\* _normalize_timestamp (lines 110-132); t is the clock read on failure.
normalize_timestamp(v, t) ==
    IF v.kind = "str" /\ v.s \in IsoStrings
    THEN ReplaceZ(v.s)
    ELSE utcnow_isoformat(t)

\* The strings a cleaned timestamp can be, in ascending (lexicographic) order.
TimestampOrder ==
    <<"2024-02-10T09:00:00", "2024-02-10T10:00:00", "2024-02-10T10:00:00+00:00",
      "2024-02-10T10:00:01", "2024-02-10T10:00:02", "2024-02-10T10:00:03",
      "2024-02-10T10:00:04", "2024-02-10T10:00:05", "2024-02-10T10:00:06",
      "2024-02-10T10:00:07", "2024-02-10T10:00:08", "2024-02-10T10:00:09",
      "2024-02-10T12:00:00+02:00">>
TimestampRank(s) == CHOOSE i \in 1..Len(TimestampOrder) : TimestampOrder[i] = s

\* pd.DataFrame(raw_data).columns (lines 38-45)
Columns(raw) == {f \in Fields : \E i \in 1..Len(raw) : raw[i][f].kind # "absent"}

\* lines 48-49
RequiredColumns == {"symbol", "price", "timestamp"}
MissingColumns(raw) == RequiredColumns \ Columns(raw)

\* lines 38, 54-61: the frame, with the optional columns added when the whole
\* column is missing.  pos is the row's position in raw_data.
Frame(raw) ==
    [i \in 1..Len(raw) |->
        [pos |-> i,
         symbol |-> raw[i].symbol,
         price |-> raw[i].price,
         volume |-> IF "volume" \in Columns(raw) THEN raw[i].volume ELSE Num(0),
         timestamp |-> raw[i].timestamp,
         provider |-> IF "provider" \in Columns(raw) THEN raw[i].provider
                      ELSE Str("unknown")]]

\* lines 65 and 84: df.dropna(subset=['price'])
DropNaPrice(rows) == SelectSeq(rows, LAMBDA r : ~IsNa(r.price))

\* lines 69 and 72: fillna on volume and symbol
FillNa(rows) ==
    [i \in 1..Len(rows) |->
        [rows[i] EXCEPT
            !.volume = IF IsNa(@) THEN Num(0) ELSE @,
            !.symbol = IF IsNa(@) THEN Str("UNKNOWN") ELSE @]]

\* line 77: pd.to_numeric(volume, errors='coerce').fillna(0), before astype(int)
VolumeNumeric(v) == IF IsNa(to_numeric(v)) THEN Num(0) ELSE to_numeric(v)

\* lines 76-77: the numeric columns
ToNumeric(rows) ==
    [i \in 1..Len(rows) |->
        [rows[i] EXCEPT !.price = to_numeric(@), !.volume = VolumeNumeric(@)]]

\* line 77: astype(int) raises on a non-finite volume
IntCastFails(rows) == \E i \in 1..Len(rows) : VolumeNumeric(rows[i].volume).kind = "inf"

\* lines 89 and 92: the timestamps; clk[pos] is the clock a row's fallback
\* reads, clk[Len(clk)] the one processed_at reads.
Stamp(rows, clk) ==
    [i \in 1..Len(rows) |->
        [symbol |-> rows[i].symbol.s,
         price |-> rows[i].price,
         volume |-> rows[i].volume.n,
         timestamp |-> normalize_timestamp(rows[i].timestamp, clk[rows[i].pos]),
         provider |-> rows[i].provider,
         processed_at |-> utcnow_isoformat(clk[Len(clk)])]]

\* line 95: df.sort_values('timestamp', ascending=False); rows with equal
\* timestamps keep their order (the sort of a small frame is an insertion sort).
RECURSIVE InsertDesc(_, _)
InsertDesc(sorted, r) ==
    IF sorted = <<>> THEN <<r>>
    ELSE IF TimestampRank(Head(sorted).timestamp) >= TimestampRank(r.timestamp)
         THEN <<Head(sorted)>> \o InsertDesc(Tail(sorted), r)
         ELSE <<r>> \o sorted

RECURSIVE SortDesc(_)
SortDesc(rows) ==
    IF rows = <<>> THEN <<>>
    ELSE InsertDesc(SortDesc(SubSeq(rows, 1, Len(rows) - 1)), rows[Len(rows)])

\* A price is positive: a finite number above 0, or +inf.
Positive(p) == p.kind = "inf" \/ (p.kind = "num" /\ p.n > 0)

\* A final filter that lets a zero price through (price >= 0).
NonNegativePrices(rows) ==
    SelectSeq(rows, LAMBDA r : r.price.kind = "inf" \/ (r.price.kind = "num" /\ r.price.n >= 0))

\* line 98: df[df['price'] > 0]
PositivePrices(rows) == SelectSeq(rows, LAMBDA r : Positive(r.price))

\* line 33: `if not raw_data`
EmptyBatch(raw) == raw = <<>>

\* A column check that asks for the price column only.
PriceColumnOnly(raw) == {"price"} \ Columns(raw) # {}

\* A column check that accepts every frame.
NoColumnCheck(raw) == FALSE

\* line 51: `if missing_columns`
SchemaViolation(raw) == MissingColumns(raw) # {}

clean_and_standardize(raw, clk) ==
    IF EmptyBatch(raw) THEN [status |-> "ok", rows |-> <<>>]
    ELSE IF SchemaViolation(raw)
    THEN [status |-> "ValueError: Missing required columns", rows |-> <<>>]
    ELSE LET filled == FillNa(DropNaPrice(Frame(raw)))
         IN  IF IntCastFails(filled)
             THEN [status |-> "ValueError: Cannot convert non-finite values", rows |-> <<>>]
             ELSE [status |-> "ok",
                   rows |-> PositivePrices(SortDesc(
                                Stamp(DropNaPrice(ToNumeric(filled)), clk)))]

\* The clocks a call that starts at clock t can read: one per row and one
\* for processed_at, never going back.
ClockReadings(n, t) ==
    {clk \in [1..(n + 1) -> t..MaxClock] :
        \A i \in 1..n : clk[i] <= clk[i + 1]}

-----------------------------------------------------------------------------
(* transform_data.py line 95 on a frame of any length.  sort_values uses   *)
(* its default kind, 'quicksort', which is not a stable sort: NumPy's      *)
(* quicksort sorts a range of at most SMALL_QUICKSORT + 1 elements by      *)
(* insertion (rows with equal timestamps keep their order) and partitions  *)
(* a longer one, after which rows with equal timestamps can come in        *)
(* another order.                                                          *)
SMALL_QUICKSORT == 16

\* The ways to put r into a frame that is sorted by timestamp descending.
InsertTied(sorted, r) ==
    {SubSeq(sorted, 1, k) \o <<r>> \o SubSeq(sorted, k + 1, Len(sorted)) :
        k \in {k \in 0..Len(sorted) :
                 /\ \A i \in 1..k :
                       TimestampRank(sorted[i].timestamp) >= TimestampRank(r.timestamp)
                 /\ \A i \in (k + 1)..Len(sorted) :
                       TimestampRank(sorted[i].timestamp) <= TimestampRank(r.timestamp)}}

\* The frames with the rows of `rows` by timestamp descending, rows with
\* equal timestamps in any order.
RECURSIVE AnyOrderDesc(_)
AnyOrderDesc(rows) ==
    IF rows = <<>> THEN {<<>>}
    ELSE UNION {InsertTied(s, rows[Len(rows)]) :
                   s \in AnyOrderDesc(SubSeq(rows, 1, Len(rows) - 1))}

\* line 95: the frames df.sort_values('timestamp', ascending=False) can give
sort_values(rows) ==
    IF Len(rows) - 1 > SMALL_QUICKSORT THEN AnyOrderDesc(rows) ELSE {SortDesc(rows)}

\* lines 21-107: what clean_and_standardize can return for a batch
clean_outcomes(raw, clk) ==
    IF EmptyBatch(raw) \/ SchemaViolation(raw) \/ IntCastFails(FillNa(DropNaPrice(Frame(raw))))
    THEN {clean_and_standardize(raw, clk)}
    ELSE {[status |-> "ok", rows |-> PositivePrices(sorted)] :
            sorted \in sort_values(
                Stamp(DropNaPrice(ToNumeric(FillNa(DropNaPrice(Frame(raw))))), clk))}

-----------------------------------------------------------------------------
(* transform_data.py: DataTransformer.remove_duplicates, lines 135-169.    *)
(* A frame is a sequence of rows; existing_df is [given, rows], given      *)
(* FALSE for None.                                                         *)

SameKey(a, b) == a.symbol = b.symbol /\ a.timestamp = b.timestamp

\* A drop_duplicates with keep='last'.
RECURSIVE DropDuplicatesKeepLast(_)
DropDuplicatesKeepLast(rows) ==
    IF rows = <<>> THEN <<>>
    ELSE IF \E j \in 2..Len(rows) : SameKey(rows[j], Head(rows))
         THEN DropDuplicatesKeepLast(Tail(rows))
         ELSE <<Head(rows)>> \o DropDuplicatesKeepLast(Tail(rows))

\* A drop_duplicates that compares the symbol only with the row before.
RECURSIVE DropAdjacentDuplicates(_)
DropAdjacentDuplicates(rows) ==
    IF Len(rows) <= 1 THEN rows
    ELSE LET front == SubSeq(rows, 1, Len(rows) - 1)
             last == rows[Len(rows)]
         IN  IF SameKey(front[Len(front)], last)
             THEN DropAdjacentDuplicates(front)
             ELSE DropAdjacentDuplicates(front) \o <<last>>

\* line 149: df.drop_duplicates(subset=['symbol', 'timestamp'], keep='first')
RECURSIVE DropDuplicates(_)
DropDuplicates(rows) ==
    IF rows = <<>> THEN <<>>
    ELSE LET front == SubSeq(rows, 1, Len(rows) - 1)
             last == rows[Len(rows)]
         IN  IF \E j \in 1..Len(front) : SameKey(front[j], last)
             THEN DropDuplicates(front)
             ELSE DropDuplicates(front) \o <<last>>

\* lines 154-155: df['symbol'] + '_' + df['timestamp']
CompositeKey(r) == r.symbol \o "_" \o r.timestamp

\* lines 152-163: the rows whose composite key is not one of existing_df's.
FilterExisting(rows, existing_rows) ==
    SelectSeq(rows,
        LAMBDA r : CompositeKey(r) \notin
                     {CompositeKey(existing_rows[j]) : j \in 1..Len(existing_rows)})

\* line 152: `existing_df is not None and not existing_df.empty`
UsesExisting(existing) == existing.given /\ existing.rows # <<>>

remove_duplicates(rows, existing) ==
    IF UsesExisting(existing)
    THEN FilterExisting(DropDuplicates(rows), existing.rows)
    ELSE DropDuplicates(rows)

-----------------------------------------------------------------------------
(* storage.py: the market_data table and save_to_database, lines 42-161.   *)
(* The table is the sequence of its rows in id (insertion) order.          *)

\* A table without the UNIQUE constraint.
NoConstraint(tbl, row) == FALSE

\* line 59: UNIQUE(symbol, timestamp)
UniqueViolation(tbl, row) == \E i \in 1..Len(tbl) : SameKey(tbl[i], row)

\* One INSERT statement of several rows: the rows go in one by one and the
\* first violation aborts the statement.
RECURSIVE InsertAll(_, _)
InsertAll(tbl, rows) ==
    IF rows = <<>> THEN [ok |-> TRUE, tbl |-> tbl]
    ELSE IF UniqueViolation(tbl, Head(rows)) THEN [ok |-> FALSE, tbl |-> tbl]
    ELSE InsertAll(Append(tbl, Head(rows)), Tail(rows))

\* lines 96-104: df.to_sql(..., if_exists='append', method='multi') inside
\* `with sqlite3.connect(...)`: committed as a whole, or rolled back on the
\* IntegrityError.
to_sql(tbl, rows) ==
    LET r == InsertAll(tbl, rows)
    IN  IF r.ok THEN r ELSE [ok |-> FALSE, tbl |-> tbl]

\* A count that is one too many.
LenPlusOne(rows) == Len(rows) + 1

\* lines 106-107: `return len(df)` after the bulk insert.
BulkSaved(rows) == Len(rows)

\* A handler that lets the IntegrityError of a row escape.
CatchesNothing(err) == FALSE

\* lines 150-152: `except sqlite3.IntegrityError: continue`
CatchesIntegrityError(err) == err = "IntegrityError"

\* An INSERT that checks no constraint.
ExecuteInsertUnchecked(tbl, row) == "ok"

\* lines 136-147: cursor.execute(INSERT ...) of one row.
ExecuteInsert(tbl, row) ==
    IF UniqueViolation(tbl, row) THEN "IntegrityError" ELSE "ok"

\* lines 238-250: df.to_csv(csv_path, mode='a', ...): the rows of the frame.
to_csv(rows) == rows

\* lines 176-188: SELECT * FROM market_data ORDER BY timestamp DESC
load_from_database(tbl) == [given |-> TRUE, rows |-> SortDesc(tbl)]

\* A transform that returns the cleaned rows without deduplicating them.
clean_only(raw, existing, clk) ==
    LET cleaned == clean_and_standardize(raw, clk)
    IN  [status |-> cleaned.status, rows |-> cleaned.rows]

\* lines 204-223: transform_market_data
transform_market_data(raw, existing, clk) ==
    LET cleaned == clean_and_standardize(raw, clk)
    IN  [status |-> cleaned.status,
         rows |-> remove_duplicates(cleaned.rows, existing)]

-----------------------------------------------------------------------------
(* storage.py: the read path, the statistics and the retention cleanup,    *)
(* lines 163-333, as functions of the table.                               *)

\* An SQL value that is NULL, or an integer.
SqlNull == [null |-> TRUE, v |-> 0]
SqlInt(x) == [null |-> FALSE, v |-> x]

SecondsPerDay == 24 * 3600

\* line 322: datetime(timestamp), as seconds after 2024-02-10 00:00:00 UTC:
\* SQLite reads the ISO string, applies its offset, and gives NULL for a
\* string it cannot read.
sqlite_datetime(ts) ==
    IF ts = "2024-02-10T09:00:00" THEN SqlInt(9 * 3600)
    ELSE IF ts \in {"2024-02-10T10:00:00", "2024-02-10T10:00:00+00:00",
                    "2024-02-10T12:00:00+02:00"} THEN SqlInt(10 * 3600)
    ELSE IF ts = "2024-02-10T10:00:01" THEN SqlInt(10 * 3600 + 1)
    ELSE SqlNull

\* datetime('now') when the store is used: 2024-02-11 10:00:00 plus the
\* clock.
sqlite_now(t) == SecondsPerDay + 10 * 3600 + t

\* line 322: datetime('now', '-' || ? || ' days'); for a negative number
\* the modifier reads '--1 days', which SQLite does not accept: NULL.
days_before_now(days, t) ==
    IF days >= 0 THEN SqlInt(sqlite_now(t) - days * SecondsPerDay) ELSE SqlNull

\* A comparison that also holds for equal values.
AtMost(a, b) == a <= b

\* The comparison '<' of two integers
Less(a, b) == a < b

\* SQL's a < b in a WHERE clause: not true when a side is NULL.
SqlLess(a, b) == ~a.null /\ ~b.null /\ Less(a.v, b.v)

\* lines 320-329: the DELETE and cursor.rowcount
cleanup_old_data(tbl, days, t) ==
    LET kept == SelectSeq(tbl, LAMBDA r :
                    ~SqlLess(sqlite_datetime(r.timestamp), days_before_now(days, t)))
    IN  [tbl |-> kept, deleted |-> Len(tbl) - Len(kept)]

\* lines 179-181: `if symbol:` adds WHERE symbol = ?
WhereSymbol(tbl, symbol) ==
    IF Falsy(symbol) THEN tbl ELSE SelectSeq(tbl, LAMBDA r : r.symbol = symbol.s)

\* line 183: ORDER BY timestamp DESC compares the TEXT of the column.
OrderedDesc(rows) ==
    \A i, j \in 1..Len(rows) :
        i < j => TimestampRank(rows[i].timestamp) >= TimestampRank(rows[j].timestamp)

\* The orders ORDER BY timestamp DESC can give: SQL leaves the order of
\* rows with equal timestamps open.
OrderBy(rows) ==
    {[i \in 1..Len(rows) |-> rows[f[i]]] :
        f \in {g \in [1..Len(rows) -> 1..Len(rows)] :
                 /\ \A a, b \in 1..Len(rows) : g[a] = g[b] => a = b
                 /\ OrderedDesc([i \in 1..Len(rows) |-> rows[g[i]]])}}

\* lines 185-186: `if limit:` adds LIMIT n; a negative n is no limit in SQLite.
Limit(rows, limit) ==
    IF Falsy(limit) \/ limit.n < 0 \/ limit.n >= Len(rows) THEN rows
    ELSE SubSeq(rows, 1, limit.n)

\* lines 176-191: the frames load_from_database(symbol, limit) can return
read_sql_query(tbl, symbol, limit) ==
    {Limit(rows, limit) : rows \in OrderBy(WhereSymbol(tbl, symbol))}

\* lines 206-215: the row of the greatest timestamp of every symbol, ordered
\* by symbol.
SymbolOrder == <<"AAPL", "MSFT">>
IsLatest(tbl, r) ==
    \A i \in 1..Len(tbl) :
        tbl[i].symbol = r.symbol
            => TimestampRank(tbl[i].timestamp) <= TimestampRank(r.timestamp)
get_latest_prices(tbl) ==
    LET of(sym) == SelectSeq(tbl, LAMBDA r : r.symbol = sym /\ IsLatest(tbl, r))
        col(r) == [symbol |-> r.symbol, price |-> r.price, volume |-> r.volume,
                   timestamp |-> r.timestamp, provider |-> r.provider]
        rows == of(SymbolOrder[1]) \o of(SymbolOrder[2])
    IN  [i \in 1..Len(rows) |-> col(rows[i])]

\* lines 270-298: get_statistics
get_statistics(tbl) ==
    LET syms == {tbl[i].symbol : i \in 1..Len(tbl)}
        ranks == {TimestampRank(tbl[i].timestamp) : i \in 1..Len(tbl)}
        min == CHOOSE r \in ranks : \A q \in ranks : r <= q
        max == CHOOSE r \in ranks : \A q \in ranks : r >= q
    IN  [total_records |-> Len(tbl),
         unique_symbols |-> Cardinality(syms),
         earliest |-> IF tbl = <<>> THEN None ELSE Str(TimestampOrder[min]),
         latest |-> IF tbl = <<>> THEN None ELSE Str(TimestampOrder[max]),
         records_per_symbol |->
             [s \in syms |-> Cardinality({i \in 1..Len(tbl) : tbl[i].symbol = s})]]

\* An insert loop that replaces the stored row of a conflicting key.
RECURSIVE save_with_replace(_, _)
save_with_replace(tbl, rows) ==
    IF rows = <<>> THEN [tbl |-> tbl, count |-> 0]
    ELSE LET row == Head(rows)
             put == IF UniqueViolation(tbl, row)
                    THEN [i \in 1..Len(tbl) |->
                             IF SameKey(tbl[i], row) THEN row ELSE tbl[i]]
                    ELSE Append(tbl, row)
             r == save_with_replace(put, Tail(rows))
         IN  [tbl |-> r.tbl, count |-> r.count + 1]

-----------------------------------------------------------------------------
(* The calls MarketDataAutomation.run makes, as functions of what they are *)
(* given.                                                                  *)

\* storage.py lines 128-161: the fallback loop, run to its commit.
RECURSIVE save_with_ignore_duplicates(_, _)
save_with_ignore_duplicates(tbl, rows) ==
    IF rows = <<>> THEN [tbl |-> tbl, count |-> 0]
    ELSE IF ExecuteInsert(tbl, Head(rows)) = "ok"
    THEN LET r == save_with_ignore_duplicates(Append(tbl, Head(rows)), Tail(rows))
         IN  [tbl |-> r.tbl, count |-> r.count + 1]
    ELSE save_with_ignore_duplicates(tbl, Tail(rows))

\* storage.py lines 81-112: save_to_database with no other writer.
save_to_database(tbl, rows) ==
    IF rows = <<>> THEN [tbl |-> tbl, count |-> 0]
    ELSE LET r == to_sql(tbl, rows)
         IN  IF r.ok THEN [tbl |-> r.tbl, count |-> BulkSaved(rows)]
             ELSE save_with_ignore_duplicates(tbl, rows)

\* alerts.py lines 100-109: check_multiple
RECURSIVE CheckFrom(_, _, _, _)
CheckFrom(acc, qs, ths, t) ==
    IF qs = <<>> THEN acc
    ELSE CheckFrom(Extend(acc, check_thresholds(Head(qs), ths, t)), Tail(qs), ths, t)

check_multiple(qs, ths, t) == CheckFrom(<<>>, qs, ths, t)

\* The quotes whose (symbol, timestamp) is one of the cleaned, new rows.
NewQuotesOnly(raw, clean) ==
    SelectSeq(raw, LAMBDA q :
        \E i \in 1..Len(clean) :
            /\ q.symbol = Str(clean[i].symbol)
            /\ q.timestamp = Str(clean[i].timestamp))

\* main.py lines 97 and 109: check_and_alert(raw_data)
AlertInput(raw, clean) == raw

\* main.py lines 150-158: quote['symbol'], and f"{price:.2f}" of a price
\* that is not a number, raise.
SummaryRaises(raw) ==
    \E i \in 1..Len(raw) :
        \/ raw[i].symbol.kind = "absent"
        \/ raw[i].price.kind \notin {"num", "nan", "inf"}

\* The exceptions run catches at line 130: of print (alerts.py lines
\* 138-148), of the format of a price (main.py line 158), of the store
\* (storage.py lines 114-116).
PrintError == "UnicodeEncodeError"
FormatError == "TypeError"
StoreError == "sqlite3.OperationalError"

\* An exit status that is 0 whatever run returned.
ExitAlwaysZero(ok) == 0

\* main.py line 225: sys.exit(0 if success else 1)
ExitStatus(ok) == IF ok = "True" THEN 0 ELSE 1

-----------------------------------------------------------------------------
(* The inputs of the evaluator.                                            *)
QuoteTimestamp == "2024-02-10T10:00:00"

MkQuote(sym, price, ts) ==
    [symbol |-> sym, price |-> price, volume |-> Num(1000), timestamp |-> ts,
     provider |-> Absent]

AlertQuotes ==
    {MkQuote(Str("TEST"), Num(p), ts) :
        p \in {95, 150, 200, 205}, ts \in {Str(QuoteTimestamp), Absent}}
    \cup {MkQuote(sym, Num(95), Str(QuoteTimestamp)) : sym \in {None, Absent, Str("")}}
    \cup {MkQuote(Str("TEST"), None, Str(QuoteTimestamp))}

Bound == {None, Num(100), Num(200)}
ThresholdEntries == [min : Bound, max : Bound]

ThresholdConfigs ==
    {[s \in {} |-> [min |-> None, max |-> None]]}
    \cup {[s \in {"TEST"} |-> e] : e \in ThresholdEntries}
    \cup {[s \in {"", "TEST"} |-> [min |-> Num(100), max |-> Num(200)]]}

-----------------------------------------------------------------------------
(* The raw batches given to clean_and_standardize.                         *)
GoodTimestamp == Str("2024-02-10T10:00:00")

MkRaw(sym, price, vol, ts, prov) ==
    [symbol |-> sym, price |-> price, volume |-> vol, timestamp |-> ts,
     provider |-> prov]

RawPrices == {Absent, None, Num(-5), Num(0), Num(150), Str("150"), Str("abc")}

RawQuotes ==
    {MkRaw(Str("AAPL"), p, Num(1000), GoodTimestamp, Str("yfinance")) : p \in RawPrices}
    \cup {MkRaw(sym, Num(150), Num(1000), GoodTimestamp, Str("yfinance")) :
            sym \in {Absent, None}}
    \cup {MkRaw(Str("MSFT"), Num(350), Num(1000), ts, Str("yfinance")) :
            ts \in {Absent, Str("not a time"), Str("2024-02-10T09:00:00")}}
    \cup {MkRaw(Str("MSFT"), Num(350), Inf, GoodTimestamp, Str("yfinance")),
          MkRaw(Str("MSFT"), None, Inf, GoodTimestamp, Str("yfinance"))}
    \cup {MkRaw(Str("AAPL"), Num(150), vol, GoodTimestamp, Str("yfinance")) :
            vol \in {Absent, None, Str("abc"), Num(-5)}}
    \cup {MkRaw(Str("AAPL"), Num(150), Num(1000), GoodTimestamp, prov) :
            prov \in {Absent, None}}
    \cup {MkRaw(Str(""), Num(150), Num(1000), GoodTimestamp, Str("yfinance"))}
    \cup {MkRaw(Str("MSFT"), Num(350), Num(1000), ts, Str("yfinance")) :
            ts \in {Str("2024-02-10T12:00:00+02:00"), Str("2024-02-10T10:00:00Z")}}

-----------------------------------------------------------------------------
(* The frames given to remove_duplicates.                                  *)
MkClean(sym, ts, price) ==
    [symbol |-> sym, price |-> Num(price), volume |-> 1000, timestamp |-> ts,
     provider |-> Str("yfinance"), processed_at |-> "2024-02-10T10:00:00"]

DedupeSymbols == {"BTC", "BTC_USD"}
DedupeTimestamps == {"2024-02-10T10:00:00", "USD_2024-02-10T10:00:00"}

DedupeRows ==
    {MkClean(sym, ts, p) : sym \in DedupeSymbols, ts \in DedupeTimestamps,
                           p \in {150, 151}}

\* What load_from_database can return: rows with pairwise different keys.
StoredRows == {MkClean(sym, ts, 149) : sym \in DedupeSymbols, ts \in DedupeTimestamps}

UniqueKeys(rows) ==
    \A i, j \in 1..Len(rows) : SameKey(rows[i], rows[j]) => i = j

ExistingFrames ==
    {[given |-> FALSE, rows |-> <<>>]}
    \cup {[given |-> TRUE, rows |-> rows] :
            rows \in {r \in SeqsUpTo(StoredRows, MaxExisting) : UniqueKeys(r)}}

-----------------------------------------------------------------------------
(* The processes that use the store, and what they fetch and save.         *)
Procs == {"run1", "run2"}

RunQuotes ==
    {MkRaw(Str("AAPL"), Num(150), Num(1000), Str("2024-02-10T10:00:00"), Str("yfinance")),
     MkRaw(Str("AAPL"), Num(151), Num(1000), Str("2024-02-10T10:00:00"), Str("yfinance")),
     MkRaw(Str("AAPL"), Num(150), Num(1000), Str("2024-02-10T09:00:00"), Str("yfinance")),
     MkRaw(Str("MSFT"), Num(150), Num(1000), Str("2024-02-10T10:00:00"), Str("yfinance"))}

\* The clean rows of those quotes.
StoreRows == {clean_and_standardize(<<q>>, <<0, 0>>).rows[1] : q \in RunQuotes}

\* What the table can hold of earlier runs.
StoredTables == {t \in SeqsUpTo(StoreRows, MaxStored) : UniqueKeys(t)}

NoFrame == [given |-> FALSE, rows |-> <<>>]

Keys(rows) == {<<rows[i].symbol, rows[i].timestamp>> : i \in 1..Len(rows)}

-----------------------------------------------------------------------------
(* What a run fetches and finds.  fetch_data.py lines 106-112: a quote has *)
(* its five keys, a float price or None, and the clock as timestamp.       *)
FetchedQuotes ==
    {MkRaw(Str(sym), p, Num(1000), GoodTimestamp, Str("yfinance")) :
        sym \in {"AAPL", "MSFT"}, p \in {None, Num(95), Num(150)}}

\* Records of a quote source that breaks its contract (the fetchers of
\* fetch_data.py always set the five keys): one without the price key, one
\* without the timestamp key.  run takes whatever fetch_market_data
\* returns (main.py line 81).
MalformedQuotes ==
    {MkRaw(Str("AAPL"), Absent, Num(1000), GoodTimestamp, Str("yfinance")),
     MkRaw(Str("MSFT"), Num(150), Num(1000), Absent, Str("yfinance"))}

QuoteSource == FetchedQuotes \cup MalformedQuotes

RunThresholds ==
    {[s \in {} |-> [min |-> None, max |-> None]],
     [s \in {"AAPL"} |-> [min |-> Num(100), max |-> Num(200)]]}

\* The rows earlier runs may have stored.
RunStoredRows ==
    {clean_and_standardize(<<q>>, <<0, 0>>).rows[1] :
        q \in {f \in FetchedQuotes : f.price.kind = "num"}}
RunStoredTables == {t \in SeqsUpTo(RunStoredRows, MaxStored) : UniqueKeys(t)}

\* config_ok: Config.validate() passes; save_fails: the store raises an
\* error that is not an IntegrityError; console_fails: print raises;
\* email_enabled: Config.ENABLE_EMAIL_ALERTS; email_fails: SMTP raises.
Environments ==
    [config_ok : BOOLEAN, save_fails : BOOLEAN, console_fails : BOOLEAN,
     email_enabled : BOOLEAN, email_fails : BOOLEAN]

NoEnvironment ==
    [config_ok |-> TRUE, save_fails |-> FALSE, console_fails |-> FALSE,
     email_enabled |-> FALSE, email_fails |-> FALSE]

NothingDelivered == [console |-> FALSE, email |-> FALSE]

-----------------------------------------------------------------------------
(* The batches given to transform_market_data.                             *)
TransformQuotes ==
    {MkRaw(Str("AAPL"), Num(150), Num(1000), GoodTimestamp, Str("yfinance")),
     MkRaw(Str("AAPL"), Num(151), Num(1000), GoodTimestamp, Str("yfinance")),
     MkRaw(Str("AAPL"), None, Num(1000), GoodTimestamp, Str("yfinance")),
     MkRaw(Str("AAPL"), Num(151), Num(1000), Str("2024-02-10T09:00:00"), Str("yfinance")),
     MkRaw(Str("MSFT"), Num(150), Num(1000), GoodTimestamp, Str("yfinance"))}

\* A batch of SMALL_QUICKSORT + 2 quotes: a at position i, b at position j,
\* the quote c everywhere else.
LongBatch(a, b, c, i, j) ==
    [k \in 1..(SMALL_QUICKSORT + 2) |-> IF k = i THEN a ELSE IF k = j THEN b ELSE c]

LongBatches ==
    {LongBatch(a, b, MkRaw(Str("MSFT"), Num(150), Num(1000), GoodTimestamp, Str("yfinance")),
               p[1], p[2]) :
        a \in TransformQuotes, b \in TransformQuotes, p \in {<<1, 2>>, <<3, 17>>}}

TransformBatches == SeqsUpTo(TransformQuotes, MaxRaw) \cup LongBatches

\* The frames given as existing_data.
TransformExisting ==
    {NoFrame,
     [given |-> TRUE, rows |-> <<>>],
     [given |-> TRUE, rows |-> <<MkClean("MSFT", "2024-02-10T10:00:00", 149)>>]}

-----------------------------------------------------------------------------
(* What a user of DataStorage stores and asks for.                         *)
ApiSymbols == {"AAPL", "MSFT"}
ApiTimestamps ==
    {"2024-02-10T09:00:00", "2024-02-10T10:00:00", "2024-02-10T12:00:00+02:00"}

\* The rows of the frames given to save_to_database.
ApiRows ==
    {MkClean(sym, ts, p) : sym \in ApiSymbols, ts \in ApiTimestamps, p \in {150, 151}}
ApiFrames == SeqsUpTo(ApiRows, MaxApiBatch)

\* What the table holds when the user starts.
ApiTables ==
    {t \in SeqsUpTo({r \in ApiRows : r.price = Num(150)}, MaxApiStored) : UniqueKeys(t)}

\* The arguments of load_from_database and cleanup_old_data.
SymbolArgs == {None, Str(""), Str("AAPL")}
LimitArgs == {None, Num(0), Num(1), Num(2)}
DaysArgs == {-1, 0, 1, 30}

-----------------------------------------------------------------------------
(* fetch_data.py: what fetch_multiple is asked for and what a call of the  *)
(* provider can do.                                                        *)

\* config.py line 25: the default of SYMBOLS
SYMBOLS == <<"AAPL", "MSFT", "BTC-USD">>

\* config.py lines 56-57
API_RETRY_ATTEMPTS == 3
API_RETRY_DELAY == 2

\* A call of _fetch_alphavantage or _fetch_yfinance returns a quote, raises
\* a requests.exceptions.RequestException (requests.get, raise_for_status:
\* lines 159-160), or raises another exception (the ValueError of an
\* unexpected response, lines 175 and 187; a KeyError of a missing field).
ProviderOutcomes == {"quote", "RequestException", "ValueError"}

\* lines 106-112 and 179-185: the quote of a symbol
QuoteOf(sym) == MkRaw(Str(sym), Num(150), Num(1000), GoodTimestamp, Str("yfinance"))

-----------------------------------------------------------------------------
(* Each specification runs one component; the variables of the others keep *)
(* these values.                                                           *)
AlertsIdle ==
    /\ thresholds = [s \in {} |-> [min |-> None, max |-> None]]
    /\ quotes = <<>>
    /\ ev_pc = "idle"
    /\ qi = 0
    /\ alerts = <<>>
    /\ all_alerts = <<>>
    /\ prev_alerts = <<>>
    /\ n_calls = 0

CleanIdle ==
    /\ raw_data = <<>>
    /\ clean_result = [status |-> "none", rows |-> <<>>]

DedupeIdle ==
    /\ dd_df = <<>>
    /\ dd_existing = [given |-> FALSE, rows |-> <<>>]
    /\ dd_pc = "start"
    /\ dd_out = <<>>

StoreIdle ==
    /\ market_data = <<>>
    /\ txn = <<>>
    /\ db_lock = "none"
    /\ pc = [p \in Procs |-> "idle"]
    /\ existing_data = [p \in Procs |-> NoFrame]
    /\ df = [p \in Procs |-> <<>>]
    /\ idx = [p \in Procs |-> 0]
    /\ saved_count = [p \in Procs |-> 0]
    /\ ret = [p \in Procs |-> 0]
    /\ path = [p \in Procs |-> "none"]
    /\ n_saves = [p \in Procs |-> 0]
    /\ csv_file = <<>>
    /\ stored_before = [p \in Procs |-> {}]
    /\ disturbed = [p \in Procs |-> FALSE]

RunIdle ==
    /\ run_pc = "main"
    /\ env = NoEnvironment
    /\ clean_data = <<>>
    /\ run_saved = 0
    /\ run_alerts = <<>>
    /\ delivered = NothingDelivered
    /\ run_error = "none"
    /\ success = "none"
    /\ exit_status = -1

ApiIdle ==
    /\ api_op = [name |-> "none"]
    /\ api_ret = [kind |-> "none"]
    /\ n_ops = 0

FetchIdle ==
    /\ fm_i = 1
    /\ fq_pc = "call"
    /\ attempt = 0
    /\ calls = [i \in 1..Len(SYMBOLS) |-> 0]
    /\ slept = [i \in 1..Len(SYMBOLS) |-> 0]
    /\ last_error = [i \in 1..Len(SYMBOLS) |-> "none"]
    /\ results = <<>>

-----------------------------------------------------------------------------
(* SpecAlerts: check_multiple is called, up to twice, on the same quotes.  *)
InitAlerts ==
    /\ thresholds \in ThresholdConfigs
    /\ quotes \in SeqsUpTo(AlertQuotes, MaxQuotes)
    /\ now = 0
    /\ ev_pc = "idle"
    /\ qi = 0
    /\ alerts = <<>>
    /\ all_alerts = <<>>
    /\ prev_alerts = <<>>
    /\ n_calls = 0
    /\ CleanIdle
    /\ DedupeIdle
    /\ StoreIdle
    /\ RunIdle
    /\ ApiIdle
    /\ FetchIdle

\* The clock advances.
Tick ==
    /\ now < MaxClock
    /\ now' = now + 1
    /\ UNCHANGED <<alertVars, cleanVars, dedupeVars,
                   storeVars, runVars, apiVars, fetchVars>>

\* check_multiple is entered: all_alerts = [] (line 100).
CheckMultipleCall ==
    /\ ev_pc = "idle"
    /\ n_calls < 2
    /\ ev_pc' = "loop"
    /\ qi' = 0
    /\ alerts' = <<>>
    /\ prev_alerts' = all_alerts
    /\ all_alerts' = <<>>
    /\ UNCHANGED <<thresholds, quotes, now, n_calls, cleanVars, dedupeVars,
                   storeVars, runVars, apiVars, fetchVars>>

\* One iteration of `for quote in quotes` (lines 102-104).
CheckMultipleIter ==
    /\ ev_pc = "loop"
    /\ qi < Len(quotes)
    /\ alerts' = check_thresholds(quotes[qi + 1], thresholds, now)
    /\ all_alerts' = Extend(all_alerts, alerts')
    /\ qi' = qi + 1
    /\ UNCHANGED <<thresholds, quotes, now, ev_pc, prev_alerts, n_calls, cleanVars, dedupeVars,
                   storeVars, runVars, apiVars, fetchVars>>

\* return all_alerts (line 109).
CheckMultipleReturn ==
    /\ ev_pc = "loop"
    /\ qi = Len(quotes)
    /\ ev_pc' = "idle"
    /\ n_calls' = n_calls + 1
    /\ UNCHANGED <<thresholds, quotes, now, qi, alerts, all_alerts, prev_alerts,
                   cleanVars, dedupeVars,
                   storeVars, runVars, apiVars, fetchVars>>

NextAlerts ==
    \/ Tick
    \/ CheckMultipleCall
    \/ CheckMultipleIter
    \/ CheckMultipleReturn

SpecAlerts == InitAlerts /\ [][NextAlerts]_vars

-----------------------------------------------------------------------------
(* SpecClean: clean_and_standardize is called on a raw batch.              *)
InitClean ==
    /\ raw_data \in SeqsUpTo(RawQuotes, MaxRaw)
    /\ clean_result = [status |-> "none", rows |-> <<>>]
    /\ now = 0
    /\ AlertsIdle
    /\ DedupeIdle
    /\ StoreIdle
    /\ RunIdle
    /\ ApiIdle
    /\ FetchIdle

\* clean_and_standardize(raw_data) is called and returns or raises.
Clean ==
    /\ clean_result.status = "none"
    /\ \E clk \in ClockReadings(Len(raw_data), now) :
        /\ clean_result' = clean_and_standardize(raw_data, clk)
        /\ now' = clk[Len(clk)]
    /\ UNCHANGED <<raw_data, alertVars, dedupeVars,
                   storeVars, runVars, apiVars, fetchVars>>

NextClean ==
    \/ Tick
    \/ Clean

SpecClean == InitClean /\ [][NextClean]_vars

-----------------------------------------------------------------------------
(* SpecDedupe: remove_duplicates is called on a frame and existing_df.     *)
InitDedupe ==
    /\ dd_df \in SeqsUpTo(DedupeRows, MaxDf)
    /\ dd_existing \in ExistingFrames
    /\ dd_pc = "start"
    /\ dd_out = <<>>
    /\ now = 0
    /\ AlertsIdle
    /\ CleanIdle
    /\ StoreIdle
    /\ RunIdle
    /\ ApiIdle
    /\ FetchIdle

\* line 149: the duplicates inside the new data are removed.
DedupeWithinBatch ==
    /\ dd_pc = "start"
    /\ dd_out' = DropDuplicates(dd_df)
    /\ dd_pc' = "deduped"
    /\ UNCHANGED <<dd_df, dd_existing, now, alertVars, cleanVars,
                   storeVars, runVars, apiVars, fetchVars>>

\* lines 152-163: the records that already exist are removed; existing_df
\* gets its _key column and loses it again.
DedupeAgainstExisting ==
    /\ dd_pc = "deduped"
    /\ UsesExisting(dd_existing)
    /\ dd_out' = FilterExisting(dd_out, dd_existing.rows)
    /\ dd_pc' = "done"
    /\ UNCHANGED <<dd_df, dd_existing, now, alertVars, cleanVars,
                   storeVars, runVars, apiVars, fetchVars>>

\* line 152 is false: nothing more is removed.
DedupeReturn ==
    /\ dd_pc = "deduped"
    /\ ~UsesExisting(dd_existing)
    /\ dd_pc' = "done"
    /\ UNCHANGED <<dd_df, dd_existing, dd_out, now, alertVars, cleanVars,
                   storeVars, runVars, apiVars, fetchVars>>

NextDedupe ==
    \/ DedupeWithinBatch
    \/ DedupeAgainstExisting
    \/ DedupeReturn

SpecDedupe == InitDedupe /\ [][NextDedupe]_vars

-----------------------------------------------------------------------------
(* Spec: processes that share the SQLite file.  Each either runs the       *)
(* pipeline of MarketDataAutomation.run (load the existing rows, transform *)
(* the fetched quotes, save) or calls save_to_database with a frame of its *)
(* own, and may save the same frame a second time.  The file may hold the  *)
(* rows of earlier runs when the processes start.                          *)
(* A process that finds the write lock taken waits for it: the holder's    *)
(* transaction is taken to end within sqlite3's busy timeout.              *)
Init ==
    /\ market_data \in StoredTables
    /\ txn = <<>>
    /\ db_lock = "none"
    /\ pc = [p \in Procs |-> "idle"]
    /\ existing_data = [p \in Procs |-> NoFrame]
    /\ df = [p \in Procs |-> <<>>]
    /\ idx = [p \in Procs |-> 0]
    /\ saved_count = [p \in Procs |-> 0]
    /\ ret = [p \in Procs |-> 0]
    /\ path = [p \in Procs |-> "none"]
    /\ n_saves = [p \in Procs |-> 0]
    /\ csv_file = <<>>
    /\ stored_before = [p \in Procs |-> {}]
    /\ disturbed = [p \in Procs |-> FALSE]
    /\ now = 0
    /\ AlertsIdle
    /\ CleanIdle
    /\ DedupeIdle
    /\ RunIdle
    /\ ApiIdle
    /\ FetchIdle

\* A step of p changed the table: the other processes' calls are disturbed.
Disturb(p) ==
    disturbed' = [q \in Procs |-> IF q # p /\ market_data' # market_data
                                  THEN TRUE ELSE disturbed[q]]

\* main.py line 91: existing_data = self.storage.load_from_database()
LoadExisting(p) ==
    /\ pc[p] = "idle"
    /\ existing_data' = [existing_data EXCEPT ![p] = load_from_database(market_data)]
    /\ pc' = [pc EXCEPT ![p] = "loaded"]
    /\ UNCHANGED <<csv_file, market_data, txn, db_lock, df, idx, saved_count, ret, path,
                   n_saves, stored_before, disturbed, now, alertVars, cleanVars,
                   dedupeVars, runVars, apiVars, fetchVars>>

\* main.py lines 81-104: the fetched quotes are transformed against the
\* loaded rows; with nothing new the run returns, else save_data is called.
Transform(p) ==
    /\ pc[p] = "loaded"
    /\ \E raw \in SeqsUpTo(RunQuotes, MaxBatch) \ {<<>>} :
        LET t == transform_market_data(raw, existing_data[p],
                                       [i \in 1..(Len(raw) + 1) |-> now])
        IN  IF t.status = "ok" /\ t.rows # <<>>
            THEN /\ df' = [df EXCEPT ![p] = t.rows]
                 /\ pc' = [pc EXCEPT ![p] = "save"]
                 /\ stored_before' = [stored_before EXCEPT ![p] = Keys(market_data)]
                 /\ disturbed' = [disturbed EXCEPT ![p] = FALSE]
                 /\ UNCHANGED existing_data
            ELSE /\ pc' = [pc EXCEPT ![p] = "nothing new"]
                 /\ UNCHANGED <<existing_data, df, stored_before, disturbed>>
    /\ UNCHANGED <<csv_file, market_data, txn, db_lock, idx, saved_count, ret, path, n_saves,
                   now, alertVars, cleanVars, dedupeVars, runVars, apiVars, fetchVars>>

\* save_to_database(df) is called with a frame of the caller's own.
CallSave(p) ==
    /\ pc[p] = "idle"
    /\ \E rows \in SeqsUpTo(StoreRows, MaxBatch) :
        df' = [df EXCEPT ![p] = rows]
    /\ pc' = [pc EXCEPT ![p] = "save"]
    /\ stored_before' = [stored_before EXCEPT ![p] = Keys(market_data)]
    /\ disturbed' = [disturbed EXCEPT ![p] = FALSE]
    /\ UNCHANGED <<csv_file, market_data, txn, db_lock, existing_data, idx, saved_count, ret,
                   path, n_saves, now, alertVars, cleanVars, dedupeVars, runVars, apiVars, fetchVars>>

\* lines 91-93: an empty frame saves nothing.
SaveEmpty(p) ==
    /\ pc[p] = "save"
    /\ df[p] = <<>>
    /\ ret' = [ret EXCEPT ![p] = 0]
    /\ path' = [path EXCEPT ![p] = "empty"]
    /\ pc' = [pc EXCEPT ![p] = "returned"]
    /\ n_saves' = [n_saves EXCEPT ![p] = @ + 1]
    /\ UNCHANGED <<csv_file, market_data, txn, db_lock, existing_data, df, idx, saved_count,
                   stored_before, disturbed, now, alertVars, cleanVars, dedupeVars, runVars, apiVars, fetchVars>>

\* lines 95-112: the bulk insert; it returns len(df), or the IntegrityError
\* sends the call to _save_with_ignore_duplicates.
SaveBulk(p) ==
    /\ pc[p] = "save"
    /\ df[p] # <<>>
    /\ db_lock = "none"
    /\ LET r == to_sql(market_data, df[p])
       IN  /\ market_data' = r.tbl
           /\ IF r.ok
              THEN /\ ret' = [ret EXCEPT ![p] = BulkSaved(df[p])]
                   /\ path' = [path EXCEPT ![p] = "bulk"]
                   /\ pc' = [pc EXCEPT ![p] = "returned"]
                   /\ n_saves' = [n_saves EXCEPT ![p] = @ + 1]
                   /\ UNCHANGED <<idx, saved_count>>
              ELSE /\ pc' = [pc EXCEPT ![p] = "fallback"]
                   /\ path' = [path EXCEPT ![p] = "fallback"]
                   /\ idx' = [idx EXCEPT ![p] = 0]
                   /\ saved_count' = [saved_count EXCEPT ![p] = 0]
                   /\ UNCHANGED <<ret, n_saves>>
    /\ Disturb(p)
    /\ UNCHANGED <<csv_file, txn, db_lock, existing_data, df, stored_before, now, alertVars,
                   cleanVars, dedupeVars, runVars, apiVars, fetchVars>>

\* lines 134-152: one row of the loop; the INSERT opens the write
\* transaction, a duplicate is skipped.  An error the loop does not catch
\* leaves through line 157: the transaction is rolled back and it is raised.
FallbackInsert(p) ==
    /\ pc[p] = "fallback"
    /\ idx[p] < Len(df[p])
    /\ db_lock \in {"none", p}
    /\ LET row == df[p][idx[p] + 1]
           err == ExecuteInsert(market_data \o txn, row)
       IN  IF err = "ok"
           THEN /\ txn' = Append(txn, row)
                /\ saved_count' = [saved_count EXCEPT ![p] = @ + 1]
                /\ idx' = [idx EXCEPT ![p] = @ + 1]
                /\ db_lock' = p
                /\ UNCHANGED <<pc, ret, n_saves>>
           ELSE IF CatchesIntegrityError(err)
           THEN /\ idx' = [idx EXCEPT ![p] = @ + 1]
                /\ db_lock' = p
                /\ UNCHANGED <<txn, saved_count, pc, ret, n_saves>>
           ELSE /\ txn' = <<>>
                /\ db_lock' = "none"
                /\ pc' = [pc EXCEPT ![p] = "raised"]
                /\ n_saves' = [n_saves EXCEPT ![p] = @ + 1]
                /\ UNCHANGED <<idx, saved_count, ret>>
    /\ UNCHANGED <<csv_file, market_data, existing_data, df, path, stored_before, disturbed,
                   now, alertVars, cleanVars, dedupeVars, runVars, apiVars, fetchVars>>

\* lines 154-161: conn.commit() and return saved_count.
FallbackCommit(p) ==
    /\ pc[p] = "fallback"
    /\ idx[p] = Len(df[p])
    /\ db_lock = p
    /\ market_data' = market_data \o txn
    /\ txn' = <<>>
    /\ db_lock' = "none"
    /\ ret' = [ret EXCEPT ![p] = saved_count[p]]
    /\ pc' = [pc EXCEPT ![p] = "returned"]
    /\ n_saves' = [n_saves EXCEPT ![p] = @ + 1]
    /\ Disturb(p)
    /\ UNCHANGED <<csv_file, existing_data, df, idx, saved_count, path, stored_before, now,
                   alertVars, cleanVars, dedupeVars, runVars, apiVars, fetchVars>>

\* The caller saves the same frame once more.
SaveAgain(p) ==
    /\ pc[p] = "returned"
    /\ n_saves[p] = 1
    /\ pc' = [pc EXCEPT ![p] = "save"]
    /\ UNCHANGED <<csv_file, market_data, txn, db_lock, existing_data, df, idx, saved_count,
                   ret, path, n_saves, stored_before, disturbed, now, alertVars,
                   cleanVars, dedupeVars, runVars, apiVars, fetchVars>>

\* lines 349 and 233-252: save_data hands the frame it was given to
\* export_to_csv(df, append=True), which appends its rows to the flat file
\* (the frame of a run is not empty, and carries no id or created_at).
ExportToCsv(p) ==
    /\ pc[p] = "returned"
    /\ existing_data[p].given
    /\ n_saves[p] = 1
    /\ csv_file' = csv_file \o to_csv(df[p])
    /\ pc' = [pc EXCEPT ![p] = "exported"]
    /\ UNCHANGED <<market_data, txn, db_lock, existing_data, df, idx, saved_count,
                   ret, path, n_saves, stored_before, disturbed, now, alertVars,
                   cleanVars, dedupeVars, runVars, apiVars, fetchVars>>

Next ==
    \E p \in Procs :
        \/ LoadExisting(p)
        \/ Transform(p)
        \/ CallSave(p)
        \/ SaveEmpty(p)
        \/ SaveBulk(p)
        \/ FallbackInsert(p)
        \/ FallbackCommit(p)
        \/ SaveAgain(p)
        \/ ExportToCsv(p)

Spec == Init /\ [][Next]_vars

-----------------------------------------------------------------------------
(* SpecRun: one invocation of main(): Config.validate, then                *)
(* MarketDataAutomation.run (fetch, load and transform, save, check and    *)
(* alert, summary), then sys.exit.  The run is the only writer of the      *)
(* store.                                                                  *)
InitRun ==
    /\ run_pc = "main"
    /\ env \in Environments
    /\ thresholds \in RunThresholds
    /\ market_data \in RunStoredTables
    /\ csv_file = <<>>
    /\ raw_data = <<>>
    /\ clean_data = <<>>
    /\ run_saved = 0
    /\ run_alerts = <<>>
    /\ delivered = NothingDelivered
    /\ run_error = "none"
    /\ success = "none"
    /\ exit_status = -1
    /\ now = 0
    /\ quotes = <<>> /\ ev_pc = "idle" /\ qi = 0 /\ alerts = <<>>
    /\ all_alerts = <<>> /\ prev_alerts = <<>> /\ n_calls = 0
    /\ clean_result = [status |-> "none", rows |-> <<>>]
    /\ DedupeIdle
    /\ txn = <<>> /\ db_lock = "none"
    /\ pc = [p \in Procs |-> "idle"]
    /\ existing_data = [p \in Procs |-> NoFrame]
    /\ df = [p \in Procs |-> <<>>]
    /\ idx = [p \in Procs |-> 0]
    /\ saved_count = [p \in Procs |-> 0]
    /\ ret = [p \in Procs |-> 0]
    /\ path = [p \in Procs |-> "none"]
    /\ n_saves = [p \in Procs |-> 0]
    /\ stored_before = [p \in Procs |-> {}]
    /\ disturbed = [p \in Procs |-> FALSE]
    /\ ApiIdle
    /\ FetchIdle

\* run ends: line 85, 98 or 128 returns, or line 132 after an exception.
Return(ok, err) ==
    /\ success' = ok
    /\ run_error' = err
    /\ run_pc' = "returned"

\* main.py lines 214-222 and 231-233: Config.validate() raises, or run is
\* called.
Main ==
    /\ run_pc = "main"
    /\ IF env.config_ok
       THEN /\ run_pc' = "fetch"
            /\ UNCHANGED <<run_error, exit_status>>
       ELSE /\ run_error' = "ValueError: configuration"
            /\ exit_status' = 1
            /\ run_pc' = "exited"
    /\ UNCHANGED <<env, thresholds, market_data, csv_file, raw_data, clean_data,
                   run_saved, run_alerts, delivered, success, now, alertCallVars,
                   clean_result, dedupeVars, procVars, apiVars, fetchVars>>

\* main.py lines 81-85: fetch_market_data; no quote ends the run.
Fetch ==
    /\ run_pc = "fetch"
    /\ \E batch \in SeqsUpTo(QuoteSource, MaxFetched) :
        /\ raw_data' = batch
        /\ IF batch = <<>>
           THEN Return("False", "none")
           ELSE /\ run_pc' = "transform"
                /\ UNCHANGED <<success, run_error>>
    /\ UNCHANGED <<env, thresholds, market_data, csv_file, clean_data, run_saved,
                   run_alerts, delivered, exit_status, now, alertCallVars,
                   clean_result, dedupeVars, procVars, apiVars, fetchVars>>

\* main.py lines 91-98: load_from_database, transform_market_data; an
\* exception ends the run, an empty frame goes straight to the alerts.
TransformData ==
    /\ run_pc = "transform"
    /\ LET t == transform_market_data(raw_data, load_from_database(market_data),
                                      [i \in 1..(Len(raw_data) + 1) |-> now])
       IN  IF t.status # "ok"
           THEN /\ Return("False", t.status)
                /\ UNCHANGED clean_data
           ELSE /\ clean_data' = t.rows
                /\ run_pc' = IF t.rows = <<>> THEN "alert" ELSE "save"
                /\ UNCHANGED <<success, run_error>>
    /\ UNCHANGED <<env, thresholds, market_data, csv_file, raw_data, run_saved,
                   run_alerts, delivered, exit_status, now, alertCallVars,
                   clean_result, dedupeVars, procVars, apiVars, fetchVars>>

\* main.py line 104 and storage.py lines 337-350: save_data; an error of
\* the store that is not an IntegrityError is raised (storage.py lines
\* 114-116) and ends the run.
SaveData ==
    /\ run_pc = "save"
    /\ IF env.save_fails
       THEN /\ Return("False", StoreError)
            /\ UNCHANGED <<market_data, csv_file, run_saved>>
       ELSE LET r == save_to_database(market_data, clean_data)
            IN  /\ market_data' = r.tbl
                /\ run_saved' = r.count
                /\ csv_file' = csv_file \o to_csv(clean_data)
                /\ run_pc' = "alert"
                /\ UNCHANGED <<success, run_error>>
    /\ UNCHANGED <<env, thresholds, raw_data, clean_data, run_alerts, delivered,
                   exit_status, now, alertCallVars, clean_result, dedupeVars,
                   procVars, apiVars, fetchVars>>

\* main.py lines 97-98 and 109, alerts.py lines 295-311 and 111-129:
\* check_and_alert.  The console channel is not guarded: print raising ends
\* the run; an error of the email channel is logged.  With nothing new the
\* run returns True here.
CheckAndAlert ==
    /\ run_pc = "alert"
    /\ LET found == check_multiple(AlertInput(raw_data, clean_data), thresholds, now)
       IN  IF found # <<>> /\ env.console_fails
           THEN /\ run_alerts' = found
                /\ Return("False", PrintError)
                /\ UNCHANGED delivered
           ELSE /\ run_alerts' = found
                /\ delivered' =
                     [console |-> found # <<>>,
                      email |-> found # <<>> /\ env.email_enabled /\ ~env.email_fails]
                /\ IF clean_data = <<>>
                   THEN Return("True", "none")
                   ELSE /\ run_pc' = "summary"
                        /\ UNCHANGED <<success, run_error>>
    /\ UNCHANGED <<env, thresholds, market_data, csv_file, raw_data, clean_data,
                   run_saved, exit_status, now, alertCallVars, clean_result,
                   dedupeVars, procVars, apiVars, fetchVars>>

\* main.py lines 118-128: _display_summary, then True.
DisplaySummary ==
    /\ run_pc = "summary"
    /\ IF SummaryRaises(raw_data)
       THEN Return("False", FormatError)
       ELSE Return("True", "none")
    /\ UNCHANGED <<env, thresholds, market_data, csv_file, raw_data, clean_data,
                   run_saved, run_alerts, delivered, exit_status, now,
                   alertCallVars, clean_result, dedupeVars, procVars, apiVars, fetchVars>>

\* main.py line 225: sys.exit(0 if success else 1)
Exit ==
    /\ run_pc = "returned"
    /\ exit_status' = ExitStatus(success)
    /\ run_pc' = "exited"
    /\ UNCHANGED <<env, thresholds, market_data, csv_file, raw_data, clean_data,
                   run_saved, run_alerts, delivered, run_error, success, now,
                   alertCallVars, clean_result, dedupeVars, procVars, apiVars, fetchVars>>

NextRun ==
    \/ Main
    \/ Fetch
    \/ TransformData
    \/ SaveData
    \/ CheckAndAlert
    \/ DisplaySummary
    \/ Exit

SpecRun == InitRun /\ [][NextRun]_vars

-----------------------------------------------------------------------------
(* SpecFetch: fetch_multiple(SYMBOLS), fetch_data.py lines 192-214, and    *)
(* the fetch_quote calls it makes, lines 38-69.                            *)
InitFetch ==
    /\ FetchIdle
    /\ now = 0
    /\ AlertsIdle
    /\ CleanIdle
    /\ DedupeIdle
    /\ StoreIdle
    /\ RunIdle
    /\ ApiIdle

\* fetch_quote returns to fetch_multiple (lines 55, 63, 67).
FetchQuoteReturns == fq_pc' = "pause"

\* lines 205-206 and 50: fetch_quote(symbol) enters its loop.
FetchQuoteCall ==
    /\ fq_pc = "call"
    /\ attempt' = 0
    /\ fq_pc' = "attempt"
    /\ UNCHANGED <<fm_i, calls, slept, last_error, results, now, alertVars,
                   cleanVars, dedupeVars, storeVars, runVars, apiVars>>

\* lines 51-55 and 207-208: the provider returns the quote, fetch_quote
\* returns it, fetch_multiple appends it.
ProviderReturns ==
    /\ fq_pc = "attempt"
    /\ calls' = [calls EXCEPT ![fm_i] = @ + 1]
    /\ last_error' = [last_error EXCEPT ![fm_i] = "none"]
    /\ results' = Append(results, QuoteOf(SYMBOLS[fm_i]))
    /\ FetchQuoteReturns
    /\ UNCHANGED <<fm_i, attempt, slept, now, alertVars, cleanVars, dedupeVars,
                   storeVars, runVars, apiVars>>

\* lines 57-63: a RequestException; another attempt follows the delay,
\* unless this was the last one.
ProviderRequestException ==
    /\ fq_pc = "attempt"
    /\ calls' = [calls EXCEPT ![fm_i] = @ + 1]
    /\ last_error' = [last_error EXCEPT ![fm_i] = "RequestException"]
    /\ IF attempt < API_RETRY_ATTEMPTS - 1
       THEN fq_pc' = "sleep"
       ELSE FetchQuoteReturns
    /\ UNCHANGED <<fm_i, attempt, slept, results, now, alertVars, cleanVars,
                   dedupeVars, storeVars, runVars, apiVars>>

\* lines 65-67: any other exception; fetch_quote returns None at once.
ProviderOtherException ==
    /\ fq_pc = "attempt"
    /\ calls' = [calls EXCEPT ![fm_i] = @ + 1]
    /\ last_error' = [last_error EXCEPT ![fm_i] = "ValueError"]
    /\ FetchQuoteReturns
    /\ UNCHANGED <<fm_i, attempt, slept, results, now, alertVars, cleanVars,
                   dedupeVars, storeVars, runVars, apiVars>>

\* line 60: time.sleep(self.retry_delay), then the next attempt of the loop.
RetryDelay ==
    /\ fq_pc = "sleep"
    /\ slept' = [slept EXCEPT ![fm_i] = @ + API_RETRY_DELAY]
    /\ attempt' = attempt + 1
    /\ fq_pc' = "attempt"
    /\ UNCHANGED <<fm_i, calls, last_error, results, now, alertVars, cleanVars,
                   dedupeVars, storeVars, runVars, apiVars>>

\* lines 210-214: time.sleep(0.5), then the next symbol or the return.
NextSymbol ==
    /\ fq_pc = "pause"
    /\ fm_i' = fm_i + 1
    /\ fq_pc' = IF fm_i = Len(SYMBOLS) THEN "done" ELSE "call"
    /\ UNCHANGED <<attempt, calls, slept, last_error, results, now, alertVars,
                   cleanVars, dedupeVars, storeVars, runVars, apiVars>>

NextFetch ==
    \/ FetchQuoteCall
    \/ ProviderReturns
    \/ ProviderRequestException
    \/ ProviderOtherException
    \/ RetryDelay
    \/ NextSymbol

SpecFetch == InitFetch /\ [][NextFetch]_vars

-----------------------------------------------------------------------------
(* SpecTransform: transform_market_data(raw_data, existing_data), lines    *)
(* 204-223: clean_and_standardize, then remove_duplicates on its result.   *)
InitTransform ==
    /\ raw_data \in TransformBatches
    /\ clean_result = [status |-> "none", rows |-> <<>>]
    /\ dd_existing \in TransformExisting
    /\ dd_df = <<>>
    /\ dd_pc = "start"
    /\ dd_out = <<>>
    /\ now = 0
    /\ AlertsIdle
    /\ StoreIdle
    /\ RunIdle
    /\ ApiIdle
    /\ FetchIdle

\* line 218: df = transformer.clean_and_standardize(raw_data)
TransformClean ==
    /\ dd_pc = "start"
    /\ \E out \in clean_outcomes(raw_data, [i \in 1..(Len(raw_data) + 1) |-> now]) :
        /\ clean_result' = out
        /\ dd_df' = out.rows
        /\ dd_pc' = IF out.status = "ok" THEN "cleaned" ELSE "raised"
    /\ UNCHANGED <<raw_data, dd_existing, dd_out, now, alertVars, storeVars,
                   runVars, apiVars, fetchVars>>

\* line 221: df = transformer.remove_duplicates(df, existing_data)
TransformDedupe ==
    /\ dd_pc = "cleaned"
    /\ dd_out' = remove_duplicates(dd_df, dd_existing)
    /\ dd_pc' = "done"
    /\ UNCHANGED <<raw_data, clean_result, dd_df, dd_existing, now, alertVars,
                   storeVars, runVars, apiVars, fetchVars>>

NextTransform ==
    \/ TransformClean
    \/ TransformDedupe

SpecTransform == InitTransform /\ [][NextTransform]_vars

-----------------------------------------------------------------------------
(* SpecApi: one user of DataStorage calls save_to_database,                *)
(* load_from_database, get_latest_prices, export_to_csv, get_statistics    *)
(* and cleanup_old_data, in any order, a day after the rows were fetched.  *)
InitApi ==
    /\ market_data \in ApiTables
    /\ csv_file = <<>>
    /\ now \in 0..MaxClock
    /\ ApiIdle
    /\ txn = <<>> /\ db_lock = "none"
    /\ pc = [p \in Procs |-> "idle"]
    /\ existing_data = [p \in Procs |-> NoFrame]
    /\ df = [p \in Procs |-> <<>>]
    /\ idx = [p \in Procs |-> 0]
    /\ saved_count = [p \in Procs |-> 0]
    /\ ret = [p \in Procs |-> 0]
    /\ path = [p \in Procs |-> "none"]
    /\ n_saves = [p \in Procs |-> 0]
    /\ stored_before = [p \in Procs |-> {}]
    /\ disturbed = [p \in Procs |-> FALSE]
    /\ AlertsIdle
    /\ CleanIdle
    /\ DedupeIdle
    /\ RunIdle
    /\ FetchIdle

\* A call is made and returns.
ApiCall(op, val) ==
    /\ n_ops < MaxOps
    /\ n_ops' = n_ops + 1
    /\ api_op' = op
    /\ api_ret' = val

\* lines 81-116: save_to_database(df)
ApiSave ==
    /\ \E frame \in ApiFrames :
        LET r == save_to_database(market_data, frame)
        IN  /\ market_data' = r.tbl
            /\ ApiCall([name |-> "save_to_database", df |-> frame],
                       [kind |-> "int", n |-> r.count])
    /\ UNCHANGED <<csv_file, now, alertVars, cleanVars, dedupeVars, procVars,
                   runVars, fetchVars>>

\* lines 163-195: load_from_database(symbol, limit)
ApiLoad ==
    /\ \E symbol \in SymbolArgs, limit \in LimitArgs :
        \E rows \in read_sql_query(market_data, symbol, limit) :
            ApiCall([name |-> "load_from_database", symbol |-> symbol, limit |-> limit],
                    [kind |-> "frame", rows |-> rows])
    /\ UNCHANGED <<market_data, csv_file, now, alertVars, cleanVars, dedupeVars,
                   procVars, runVars, fetchVars>>

\* lines 197-223: get_latest_prices()
ApiLatest ==
    /\ ApiCall([name |-> "get_latest_prices"],
               [kind |-> "frame", rows |-> get_latest_prices(market_data)])
    /\ UNCHANGED <<market_data, csv_file, now, alertVars, cleanVars, dedupeVars,
                   procVars, runVars, fetchVars>>

\* lines 225-256: export_to_csv(None, append): the table is loaded and
\* written, after the rows of the file when append is set and the file is
\* there, in their place otherwise; nothing is written of an empty table.
ApiExport ==
    /\ \E append \in BOOLEAN :
        \E rows \in read_sql_query(market_data, None, None) :
            /\ csv_file' = IF rows = <<>> THEN csv_file
                           ELSE IF append /\ csv_file # <<>> THEN csv_file \o to_csv(rows)
                           ELSE to_csv(rows)
            /\ ApiCall([name |-> "export_to_csv", append |-> append], [kind |-> "none"])
    /\ UNCHANGED <<market_data, now, alertVars, cleanVars, dedupeVars, procVars,
                   runVars, fetchVars>>

\* lines 258-304: get_statistics()
ApiStatistics ==
    /\ ApiCall([name |-> "get_statistics"],
               [kind |-> "stats", stats |-> get_statistics(market_data)])
    /\ UNCHANGED <<market_data, csv_file, now, alertVars, cleanVars, dedupeVars,
                   procVars, runVars, fetchVars>>

\* lines 306-333: cleanup_old_data(days)
ApiCleanup ==
    /\ \E days \in DaysArgs :
        LET r == cleanup_old_data(market_data, days, now)
        IN  /\ market_data' = r.tbl
            /\ ApiCall([name |-> "cleanup_old_data", days |-> days],
                       [kind |-> "int", n |-> r.deleted])
    /\ UNCHANGED <<csv_file, now, alertVars, cleanVars, dedupeVars, procVars,
                   runVars, fetchVars>>

NextApi ==
    \/ ApiSave
    \/ ApiLoad
    \/ ApiLatest
    \/ ApiExport
    \/ ApiStatistics
    \/ ApiCleanup

SpecApi == InitApi /\ [][NextApi]_vars

-----------------------------------------------------------------------------
(* Properties of fetch_quote (specification SpecFetch)                     *)

\* The symbols whose fetch_quote call has returned.
Fetched(i) == i < fm_i \/ (i = fm_i /\ fq_pc = "pause")

\* C25: a symbol whose fetch fails is retried: fetch_quote calls the
\* provider at most API_RETRY_ATTEMPTS times, sleeps the delay between two
\* calls, and returns None (the symbol is omitted from the batch) only after
\* API_RETRY_ATTEMPTS calls have failed.
C25_GivesUpOnlyAfterAllAttempts ==
    \A i \in 1..Len(SYMBOLS) :
        /\ calls[i] <= API_RETRY_ATTEMPTS
        /\ Fetched(i) =>
              /\ slept[i] = (calls[i] - 1) * API_RETRY_DELAY
              /\ last_error[i] # "none" =>
                    /\ calls[i] = API_RETRY_ATTEMPTS
                    /\ \A j \in 1..Len(results) : results[j].symbol # Str(SYMBOLS[i])

-----------------------------------------------------------------------------
(* Properties of one run                                                   *)
Finished == run_pc \in {"returned", "exited"}

HasNullPrice(raw) == \E i \in 1..Len(raw) : raw[i].price.kind = "none"

\* C13: the run-once entry point exits with status 0 exactly when the
\* configuration was accepted, at least one quote was fetched and no step of
\* the run raised; with nothing new to process it exits with 0, with no
\* quote fetched or after an exception with 1.
C13_ExitStatusReportsTheRun ==
    run_pc = "exited" =>
        /\ exit_status \in {0, 1}
        /\ exit_status = 0 <=>
             (env.config_ok /\ raw_data # <<>> /\ run_error = "none")
        /\ (env.config_ok /\ raw_data # <<>> /\ clean_data = <<>>
              /\ run_error = "none") => exit_status = 0

\* A run with nothing new to process has exited with status 0.
C13_Witness ==
    /\ run_pc = "exited"
    /\ raw_data # <<>>
    /\ clean_data = <<>>
    /\ exit_status = 0

\* C14: a run whose fetched batch holds a record with a null price next to
\* a valid record that is not yet stored, and whose store and console do
\* not fail, drops the record, persists the valid ones and returns True.
C14_BadRowNeverFailsRun ==
    (/\ Finished
     /\ env.config_ok /\ ~env.save_fails /\ ~env.console_fails
     /\ HasNullPrice(raw_data)
     /\ clean_data # <<>>)
        => /\ success = "True"
           /\ run_saved = Len(clean_data)

\* C15: when fetch, cleaning and persistence succeeded and every fetched
\* price is a number, run returns True whatever happens to the delivery of
\* the alerts on the console or by email.
C15_DeliveryFailureIsSwallowed ==
    (/\ Finished
     /\ env.config_ok /\ ~env.save_fails
     /\ raw_data # <<>>
     /\ ~HasNullPrice(raw_data))
        => success = "True"

-----------------------------------------------------------------------------
(* Properties of the threshold evaluator (checked under SpecAlerts).       *)

CountType(evs, ty) == Cardinality({i \in 1..Len(evs) : evs[i].threshold_type = ty})

\* The quote the loop of check_multiple handled last.
LastQuote == quotes[qi]

IsNull(v) == v.kind \in {"absent", "none"}

\* price < min with min configured, for a quote whose symbol has an entry.
BelowDue(q) ==
    /\ ~IsNull(q.price)
    /\ q.symbol.kind = "str" /\ q.symbol.s \in DOMAIN thresholds
    /\ thresholds[q.symbol.s].min.kind = "num"
    /\ q.price.n < thresholds[q.symbol.s].min.n

\* price > max with max configured, for a quote whose symbol has an entry.
AboveDue(q) ==
    /\ ~IsNull(q.price)
    /\ q.symbol.kind = "str" /\ q.symbol.s \in DOMAIN thresholds
    /\ thresholds[q.symbol.s].max.kind = "num"
    /\ q.price.n > thresholds[q.symbol.s].max.n

EmitsExactly(evs, below, above) ==
    /\ CountType(evs, "BELOW_MINIMUM") = (IF below THEN 1 ELSE 0)
    /\ CountType(evs, "ABOVE_MAXIMUM") = (IF above THEN 1 ELSE 0)
    /\ Len(evs) = (IF below THEN 1 ELSE 0) + (IF above THEN 1 ELSE 0)

\* C8 as stated: for each quote, check_thresholds emits one BELOW_MINIMUM
\* event iff the symbol has a config entry with min set and price < min, one
\* ABOVE_MAXIMUM event iff the entry has max set and price > max, and
\* nothing else; only a null symbol, a null price or a symbol absent from the
\* config silence a quote.
C8_EmitsPerConfigEntry ==
    qi > 0 => EmitsExactly(alerts, BelowDue(LastQuote), AboveDue(LastQuote))

\* C8 amended: the same, for quotes whose symbol is not the empty string; a
\* quote whose symbol is null or empty yields no event, whatever the config.
C8_EmitsForNonEmptySymbol ==
    qi > 0 =>
        IF Falsy(Get(LastQuote, "symbol"))
        THEN alerts = <<>>
        ELSE EmitsExactly(alerts, BelowDue(LastQuote), AboveDue(LastQuote))

\* C8 witness: a quote below its configured minimum got exactly its
\* BELOW_MINIMUM event.
C8_Witness ==
    /\ qi > 0
    /\ BelowDue(LastQuote) /\ ~AboveDue(LastQuote)
    /\ Len(alerts) = 1
    /\ alerts[1].threshold_type = "BELOW_MINIMUM"

\* C9: two check_multiple calls with the same quotes and the same config,
\* made at different times, return event sequences equal in every field,
\* the event timestamp included.
C9_SameInputsSameEvents ==
    (n_calls = 2 /\ ev_pc = "idle") => all_alerts = prev_alerts

\* C9 witness: two calls have returned, the clock moved, and events exist.
C9_Witness ==
    /\ n_calls = 2 /\ ev_pc = "idle"
    /\ now > 0
    /\ all_alerts # <<>>

\* The event types a quote is due, minimum check first.
DueTypes(q) ==
    (IF BelowDue(q) /\ q.symbol.s # "" THEN <<"BELOW_MINIMUM">> ELSE <<>>)
    \o (IF AboveDue(q) /\ q.symbol.s # "" THEN <<"ABOVE_MAXIMUM">> ELSE <<>>)

\* evs is, quote by quote in the order of qs, the events each quote is due.
RECURSIVE Mirrors(_, _)
Mirrors(evs, qs) ==
    IF qs = <<>> THEN evs = <<>>
    ELSE LET due == DueTypes(Head(qs))
             k == Len(due)
         IN  /\ Len(evs) >= k
             /\ \A i \in 1..k :
                    /\ evs[i].threshold_type = due[i]
                    /\ evs[i].symbol = Head(qs).symbol
                    /\ evs[i].current_price = Head(qs).price
             /\ Mirrors(SubSeq(evs, k + 1, Len(evs)), Tail(qs))

\* C10: the result of check_multiple lists the events of the quotes in
\* input quote order, and for a quote that fires both checks the
\* BELOW_MINIMUM event comes immediately before its ABOVE_MAXIMUM event.
C10_EventsMirrorQuoteOrder ==
    /\ (ev_pc = "loop" /\ qi = Len(quotes)) => Mirrors(all_alerts, quotes)
    /\ (qi > 0 /\ Len(alerts) = 2) =>
           LET th == thresholds[LastQuote.symbol.s]
           IN  /\ th.min.n > th.max.n
               /\ th.max.n < LastQuote.price.n
               /\ LastQuote.price.n < th.min.n

\* C10 witness: two quotes, one of them firing both checks, the other one.
C10_Witness ==
    /\ ev_pc = "loop" /\ qi = Len(quotes)
    /\ Len(quotes) = 2
    /\ Len(all_alerts) = 3
    /\ \E i \in 1..2 : BelowDue(quotes[i]) /\ AboveDue(quotes[i])

-----------------------------------------------------------------------------
(* Properties of clean_and_standardize (checked under SpecClean).          *)

Cleaned == clean_result.status # "none"
SchemaError == "ValueError: Missing required columns"

\* The raw price is a number above 0, or a string that spells one.
RawPriceValid(v) ==
    \/ v.kind = "num" /\ v.n > 0
    \/ v.kind = "str" /\ v.s \in NumericStrings /\ ParseNumber(v.s) > 0

ValidRawCount(raw) == Cardinality({i \in 1..Len(raw) : RawPriceValid(raw[i].price)})

\* C6: no row whose price is null, unparseable, zero or negative is in the
\* output of clean: every output row carries a number above 0, there are no
\* more output rows than input rows with such a price, and so no more
\* output rows than input rows.
C6_NoInvalidPriceInOutput ==
    Cleaned =>
        /\ \A i \in 1..Len(clean_result.rows) :
               /\ clean_result.rows[i].price.kind = "num"
               /\ clean_result.rows[i].price.n > 0
        /\ Len(clean_result.rows) <= ValidRawCount(raw_data)
        /\ Len(clean_result.rows) <= Len(raw_data)

\* C6 witness: a batch with a zero price and a valid price was cleaned and
\* only the valid row is left.
C6_Witness ==
    /\ clean_result.status = "ok"
    /\ Len(raw_data) = 2
    /\ \E i \in 1..2 : raw_data[i].price = Num(0)
    /\ \E i \in 1..2 : raw_data[i].price = Num(150)
    /\ Len(clean_result.rows) = 1

\* Some mandatory field is a key of none of the records.
MandatoryAbsentEverywhere(raw) ==
    \E f \in {"symbol", "price", "timestamp"} :
        \A i \in 1..Len(raw) : raw[i][f].kind = "absent"

\* Some mandatory field is a key of some records and not of others.
MandatoryAbsentSomewhere(raw) ==
    \E f \in {"symbol", "price", "timestamp"} :
        /\ \E i \in 1..Len(raw) : raw[i][f].kind = "absent"
        /\ \E i \in 1..Len(raw) : raw[i][f].kind # "absent"

FiniteVolumes(raw) == \A i \in 1..Len(raw) : raw[i].volume.kind # "inf"

\* C7 as stated: for every raw batch in which a mandatory field is absent
\* from all records, clean raises the structural error and returns no rows;
\* a field missing in only some records does not raise.
C7_RaisesWhenColumnAbsent ==
    Cleaned =>
        /\ MandatoryAbsentEverywhere(raw_data) =>
               clean_result.status = SchemaError /\ clean_result.rows = <<>>
        /\ ~MandatoryAbsentEverywhere(raw_data) => clean_result.status # SchemaError
        /\ (MandatoryAbsentSomewhere(raw_data) /\ ~MandatoryAbsentEverywhere(raw_data)
            /\ FiniteVolumes(raw_data)) => clean_result.status = "ok"

\* C7 amended: the same for every non-empty raw batch; the empty batch
\* yields an empty result and no error.
C7_RaisesWhenColumnAbsentNonEmpty ==
    Cleaned =>
        /\ raw_data = <<>> => clean_result = [status |-> "ok", rows |-> <<>>]
        /\ (raw_data # <<>> /\ MandatoryAbsentEverywhere(raw_data)) =>
               clean_result.status = SchemaError /\ clean_result.rows = <<>>
        /\ ~MandatoryAbsentEverywhere(raw_data) => clean_result.status # SchemaError
        /\ (MandatoryAbsentSomewhere(raw_data) /\ ~MandatoryAbsentEverywhere(raw_data)
            /\ FiniteVolumes(raw_data)) => clean_result.status = "ok"

\* C7 witness: a batch of two records, neither with a timestamp key, raised
\* the structural error.
C7_Witness ==
    /\ Len(raw_data) = 2
    /\ \A i \in 1..2 : raw_data[i].timestamp.kind = "absent"
    /\ \A i \in 1..2 : raw_data[i].price.kind = "num"
    /\ clean_result.status = SchemaError

\* The cleaned rows a raw row with a valid price may have become: its
\* price as a number, its symbol or "UNKNOWN", the clock in place of a
\* timestamp that does not parse, 0 in place of a missing or unparseable
\* volume, "unknown" in place of a missing provider.
KeptAs(r, out) ==
    /\ out.price = to_numeric(r.price)
    /\ out.symbol = (IF IsNa(r.symbol) THEN "UNKNOWN" ELSE r.symbol.s)
    /\ ~(r.timestamp.kind = "str" /\ r.timestamp.s \in IsoStrings)
           => out.timestamp \in {utcnow_isoformat(t) : t \in 0..now}
    /\ IsNa(to_numeric(r.volume)) => out.volume = 0
    /\ r.provider.kind = "absent" => out.provider = Str("unknown")

\* C17: in a batch that has the three mandatory columns and only finite
\* volumes, every raw row whose price parses to a number above 0 is in the
\* output of clean, whatever its other fields hold: clean does not raise,
\* the output has one row for each such raw row, with the current UTC time
\* for an unparseable or missing timestamp and the default for a missing
\* volume or provider.
C17_ValidPriceRowsAreKept ==
    (Cleaned /\ ~MandatoryAbsentEverywhere(raw_data) /\ FiniteVolumes(raw_data)) =>
        /\ clean_result.status = "ok"
        /\ Len(clean_result.rows) = ValidRawCount(raw_data)
        /\ \A i \in 1..Len(raw_data) :
               RawPriceValid(raw_data[i].price) =>
                   \E j \in 1..Len(clean_result.rows) :
                       KeptAs(raw_data[i], clean_result.rows[j])

\* C18: every row of the output of clean has a volume that is not negative,
\* and a batch whose volumes are all absent, null or unparseable comes out
\* with volume 0 in every row.
C18_VolumeIsNonNegative ==
    clean_result.status = "ok" =>
        /\ \A j \in 1..Len(clean_result.rows) : clean_result.rows[j].volume >= 0
        /\ (\A i \in 1..Len(raw_data) : IsNa(to_numeric(raw_data[i].volume)))
               => \A j \in 1..Len(clean_result.rows) : clean_result.rows[j].volume = 0

\* C19: every row of the output of clean has a symbol that is not the empty
\* string, and a batch whose symbols are all null comes out with "UNKNOWN"
\* in every row.
C19_SymbolIsNonEmpty ==
    clean_result.status = "ok" =>
        /\ \A j \in 1..Len(clean_result.rows) : clean_result.rows[j].symbol # ""
        /\ (\A i \in 1..Len(raw_data) : IsNa(raw_data[i].symbol))
               => \A j \in 1..Len(clean_result.rows) :
                      clean_result.rows[j].symbol = "UNKNOWN"

\* The UTC offset, in minutes, that a cleaned timestamp carries (0 when it
\* carries none), and the UTC time the timestamp denotes.
UtcOffset(ts) == IF ts = "2024-02-10T12:00:00+02:00" THEN 120 ELSE 0
Instant(ts) ==
    IF ts \in {"2024-02-10T12:00:00+02:00", "2024-02-10T10:00:00+00:00"}
    THEN "2024-02-10T10:00:00"
    ELSE ts
CarriesOffset(ts) ==
    ts \in {"2024-02-10T12:00:00+02:00", "2024-02-10T10:00:00+00:00"}

\* C20: every timestamp in the output of clean is expressed in UTC (it
\* carries no offset other than zero), and two cleaned timestamps with an
\* offset that denote the same instant are the same string.
C20_TimestampsAreUtc ==
    clean_result.status = "ok" =>
        /\ \A j \in 1..Len(clean_result.rows) :
               UtcOffset(clean_result.rows[j].timestamp) = 0
        /\ \A j \in 1..Len(clean_result.rows), k \in 1..Len(clean_result.rows) :
               (/\ CarriesOffset(clean_result.rows[j].timestamp)
                /\ CarriesOffset(clean_result.rows[k].timestamp)
                /\ Instant(clean_result.rows[j].timestamp)
                       = Instant(clean_result.rows[k].timestamp))
                   => clean_result.rows[j].timestamp = clean_result.rows[k].timestamp

-----------------------------------------------------------------------------
(* Properties of remove_duplicates (checked under SpecDedupe).             *)

\* The elements of seq at the positions in I, in the order of seq.
RECURSIVE PickFrom(_, _, _)
PickFrom(seq, I, i) ==
    IF i > Len(seq) THEN <<>>
    ELSE (IF i \in I THEN <<seq[i]>> ELSE <<>>) \o PickFrom(seq, I, i + 1)

\* The positions of the rows that are the first of their (symbol, timestamp).
FirstPositions(rows) ==
    {i \in 1..Len(rows) : \A j \in 1..(i - 1) : ~SameKey(rows[j], rows[i])}

\* C4: the result of remove_duplicates never has two elements sharing
\* (symbol, timestamp), and when existing is supplied and non-empty no
\* returned element has a (symbol, timestamp) that appears in existing.
C4_ResultHasNoDuplicates ==
    dd_pc = "done" =>
        /\ UniqueKeys(dd_out)
        /\ (dd_existing.given /\ dd_existing.rows # <<>>) =>
               \A i \in 1..Len(dd_out) : \A j \in 1..Len(dd_existing.rows) :
                   ~SameKey(dd_out[i], dd_existing.rows[j])

\* C4 witness: a batch of three rows, two of them sharing a key and one
\* already in existing, came out as one row.
C4_Witness ==
    /\ dd_pc = "done"
    /\ dd_existing.given /\ Len(dd_existing.rows) = 1
    /\ Len(dd_df) = 3
    /\ SameKey(dd_df[1], dd_df[3]) /\ ~SameKey(dd_df[1], dd_df[2])
    /\ SameKey(dd_df[2], dd_existing.rows[1])
    /\ Len(dd_out) = 1

\* C5: dedupe is order-preserving and keep-first: the rows that survive are
\* rows of the input in their input order, each the earliest input row of
\* its (symbol, timestamp) with its own field values; step 1 alone keeps
\* exactly the first row of every group.
C5_KeepFirstInOrder ==
    /\ dd_pc = "deduped" => dd_out = PickFrom(dd_df, FirstPositions(dd_df), 1)
    /\ dd_pc = "done" =>
           \E I \in SUBSET FirstPositions(dd_df) :
               /\ dd_out = PickFrom(dd_df, I, 1)
               /\ ~UsesExisting(dd_existing) => I = FirstPositions(dd_df)

\* C5 witness: two rows share a key and differ in price, a third row lies
\* between them, and the result holds the first and the third in that order.
C5_Witness ==
    /\ dd_pc = "done"
    /\ Len(dd_df) = 3
    /\ SameKey(dd_df[1], dd_df[3]) /\ dd_df[1].price # dd_df[3].price
    /\ ~SameKey(dd_df[1], dd_df[2])
    /\ dd_out = <<dd_df[1], dd_df[2]>>

\* The rows whose (symbol, timestamp) pair is not the pair of a row of
\* existing_rows.
PairNotIn(rows, existing_rows) ==
    SelectSeq(rows,
        LAMBDA r : \A j \in 1..Len(existing_rows) : ~SameKey(r, existing_rows[j]))

\* C26: when existing is supplied and non-empty, the result is exactly the
\* subsequence of the step-1 rows whose (symbol, timestamp) pair does not
\* appear in existing, each row unchanged; no row whose pair is not in
\* existing is removed, also when symbols or timestamps contain '_'.
C26_StepTwoRemovesOnlyExistingPairs ==
    (dd_pc = "done" /\ UsesExisting(dd_existing))
        => dd_out = PairNotIn(DropDuplicates(dd_df), dd_existing.rows)

-----------------------------------------------------------------------------
(* Properties of the store (specification Spec).                           *)

\* C1: the table never holds two rows with the same (symbol, timestamp),
\* in its committed rows or together with the rows of the open
\* transaction, whatever the processes loaded before they saved.
C1_NoDuplicateKeyStored == UniqueKeys(market_data \o txn)

\* C1 happens: two runs loaded their existing rows before either wrote a key
\* both then saved; one stored it, the other went through the fallback.
C1_Witness ==
    \E p \in Procs : \E q \in Procs \ {p} :
        /\ pc[p] = "returned" /\ pc[q] = "returned"
        /\ existing_data[p].given /\ existing_data[q].given
        /\ \E k \in Keys(df[p]) \cap Keys(df[q]) :
            k \notin Keys(existing_data[p].rows) \cup Keys(existing_data[q].rows)
        /\ path[p] = "bulk" /\ ret[p] >= 1
        /\ path[q] = "fallback"

\* The rows of a frame that find no row of their key in the table, the first
\* of each key.
RECURSIVE NotYetStored(_, _)
NotYetStored(rows, tbl) ==
    IF rows = <<>> THEN <<>>
    ELSE IF <<Head(rows).symbol, Head(rows).timestamp>> \in Keys(tbl)
    THEN NotYetStored(Tail(rows), tbl)
    ELSE <<Head(rows)>> \o NotYetStored(Tail(rows), Append(tbl, Head(rows)))

\* C2: a save whose bulk insert meets a stored key does not fail: the failed
\* bulk insert leaves the table as it was, and the call then commits exactly
\* the rows of the frame whose key was not stored, skips the others, and
\* returns the number it committed.
C2_ConflictingBatchIsSaved ==
    /\ [](\A p \in Procs : pc[p] # "raised")
    /\ [][\A p \in Procs :
            (pc[p] = "save" /\ pc'[p] = "fallback")
                => (market_data' = market_data /\ txn' = txn)]_vars
    /\ [][\A p \in Procs :
            (pc[p] = "fallback" /\ pc'[p] = "returned")
                => /\ market_data' = market_data \o NotYetStored(df[p], market_data)
                   /\ ret'[p] = Len(NotYetStored(df[p], market_data))
                   /\ Keys(df[p]) \subseteq Keys(market_data')]_vars

\* C2 happens: a call returned through the fallback having stored some rows
\* of its frame and skipped others.
C2_Witness ==
    \E p \in Procs :
        /\ pc[p] = "returned"
        /\ path[p] = "fallback"
        /\ ret[p] >= 1
        /\ ret[p] < Len(df[p])

\* C3: the second save of a frame returns 0 and every key of the frame is
\* stored; when no other process wrote meanwhile, the table holds one row
\* for each key that was stored before or is in the frame, and no other.
C3_SecondSaveStoresNothing ==
    \A p \in Procs :
        (pc[p] = "returned" /\ n_saves[p] = 2)
            => /\ ret[p] = 0
               /\ Keys(df[p]) \subseteq Keys(market_data)
               /\ (~disturbed[p] =>
                    (/\ Keys(market_data) = stored_before[p] \cup Keys(df[p])
                     /\ Len(market_data) =
                            Cardinality(stored_before[p] \cup Keys(df[p]))))

\* C3 happens: a frame whose first save stored new rows was saved again,
\* with no other process writing.
C3_Witness ==
    \E p \in Procs :
        /\ pc[p] = "returned"
        /\ n_saves[p] = 2
        /\ ~disturbed[p]
        /\ ~(Keys(df[p]) \subseteq stored_before[p])
        /\ Keys(df[p]) \cap stored_before[p] # {}

\* C11: the integer a save returns is the number of rows the call added to
\* the table, on the bulk path and on the fallback path: the returning step
\* adds that many rows, all of them rows of the frame, the steps of the call
\* before it add none, and for an empty frame the call returns 0 and leaves
\* the table as it was.
C11_ReturnsRowsAdded ==
    /\ [][\A p \in Procs :
            (pc[p] \in {"save", "fallback"} /\ pc'[p] = "returned")
                => /\ Len(market_data') = Len(market_data) + ret'[p]
                   /\ SubSeq(market_data', 1, Len(market_data)) = market_data
                   /\ \A i \in (Len(market_data) + 1)..Len(market_data') :
                          \E j \in 1..Len(df[p]) : market_data'[i] = df[p][j]
                   /\ df[p] = <<>> => (ret'[p] = 0 /\ market_data' = market_data)]_vars
    /\ [][\A p \in Procs :
            (pc[p] \in {"save", "fallback"} /\ pc'[p] # "returned"
             /\ (pc'[p] # pc[p] \/ idx'[p] # idx[p]))
                => market_data' = market_data]_vars

\* C11 happens: one call returned 2 from the bulk path and another returned
\* 1 from the fallback path, having skipped a row.
C11_Witness ==
    \E p \in Procs : \E q \in Procs \ {p} :
        /\ pc[p] = "returned" /\ path[p] = "bulk" /\ ret[p] = 2
        /\ pc[q] = "returned" /\ path[q] = "fallback" /\ ret[q] = 1
        /\ Len(df[q]) = 2

\* C12: the flat file mirrors the rows that were stored and no others: a
\* save_data call appends as many rows as its save_to_database stored, every
\* row of the file is a row of the table, and no (symbol, timestamp) is in
\* the file twice.
C12_MirrorHoldsStoredRowsOnly ==
    /\ [][\A p \in Procs :
            (pc[p] = "returned" /\ pc'[p] = "exported")
                => Len(csv_file') = Len(csv_file) + ret[p]]_vars
    /\ [](/\ UniqueKeys(csv_file)
          /\ \A i \in 1..Len(csv_file) :
                 \E j \in 1..Len(market_data) : csv_file[i] = market_data[j])

-----------------------------------------------------------------------------
(* Properties of the store's read path and retention (SpecApi)             *)

\* The table tbl with its rows, unchanged and in place, at the front of new.
KeepsRows(tbl, new) ==
    /\ Len(tbl) <= Len(new)
    /\ \A i \in 1..Len(tbl) : new[i] = tbl[i]

\* Every row of new is a row of tbl with its field values.
OnlyRowsOf(tbl, new) ==
    \A i \in 1..Len(new) : \E j \in 1..Len(tbl) : new[i] = tbl[j]

SecondsOf(ts) == IF Instant(ts) = "2024-02-10T09:00:00" THEN 9 * 3600 ELSE 10 * 3600
Threshold(days, t) == (24 + 10) * 3600 + t - days * 24 * 3600
OlderThan(r, days, t) == SecondsOf(r.timestamp) < Threshold(days, t)

\* What cleanup_old_data(days) is to do to the table and to return.
CleansUp(days) ==
    /\ market_data' = SelectSeq(market_data, LAMBDA r : ~OlderThan(r, days, now))
    /\ api_ret'.n = Len(market_data) - Len(market_data')

\* C22 as stated: cleanup_old_data(days) deletes exactly the rows older
\* than the current time minus `days` days and returns their number, for
\* every integer days.
C22_CleanupDeletesOlderRows ==
    [][api_op'.name = "cleanup_old_data" => CleansUp(api_op'.days)]_vars

\* C22: for days >= 0, cleanup_old_data(days) deletes exactly the rows
\* older than the current time minus `days` days, leaves the other rows
\* unchanged and returns the number of rows it deleted; for days < 0 it
\* deletes nothing and returns 0.
C22_CleanupDeletesOlderRowsOfAge ==
    [][api_op'.name = "cleanup_old_data" =>
          IF api_op'.days >= 0 THEN CleansUp(api_op'.days)
          ELSE market_data' = market_data /\ api_ret'.n = 0]_vars

\* cleanup_old_data(1) deleted one row and kept a row that is exactly one
\* day old.
C22_Witness ==
    /\ api_op.name = "cleanup_old_data"
    /\ api_op.days = 1
    /\ api_ret.n = 1
    /\ now = 0
    /\ Len(market_data) = 1
    /\ market_data[1].timestamp = "2024-02-10T10:00:00"

\* C28: load_from_database(symbol, limit) returns only stored rows, by
\* timestamp descending; with a symbol given every returned row has it;
\* with a limit n >= 0 given at most n rows are returned.
C28_LoadFiltersAndLimits ==
    api_op.name = "load_from_database" =>
        /\ OnlyRowsOf(market_data, api_ret.rows)
        /\ OrderedDesc(api_ret.rows)
        /\ api_op.symbol # None =>
              \A i \in 1..Len(api_ret.rows) : api_ret.rows[i].symbol = api_op.symbol.s
        /\ api_op.limit # None => Len(api_ret.rows) <= api_op.limit.n

-----------------------------------------------------------------------------
(* Properties of the order of a run's phases and of its abort              *)

\* The position of a phase in the run.
PhaseRank(p) ==
    CASE p = "main" -> 0 [] p = "fetch" -> 1 [] p = "transform" -> 2
      [] p = "save" -> 3 [] p = "alert" -> 4 [] p = "summary" -> 5
      [] p = "returned" -> 6 [] p = "exited" -> 7

\* The rows left of the fetched batch after cleaning and then deduplication
\* against the store.
Deduplicated ==
    remove_duplicates(
        clean_and_standardize(raw_data, [i \in 1..(Len(raw_data) + 1) |-> now]).rows,
        load_from_database(market_data))

\* C23: within one run the phases are strictly ordered: the fetched batch
\* is complete before cleaning starts and never changes afterwards, the
\* rows the run works on are those of the cleaned batch after
\* deduplication, and the store and the flat file are written only in the
\* save phase, after deduplication, with those rows.
C23_PhasesAreOrdered ==
    [][/\ PhaseRank(run_pc') > PhaseRank(run_pc)
       /\ raw_data' # raw_data => run_pc = "fetch"
       /\ clean_data' # clean_data =>
             /\ run_pc = "transform"
             /\ clean_data' = Deduplicated
       /\ (market_data' # market_data \/ csv_file' # csv_file) =>
             /\ run_pc = "save"
             /\ clean_data = Deduplicated
             /\ KeepsRows(market_data, market_data')
             /\ OnlyRowsOf(market_data \o clean_data, market_data')
             /\ csv_file' = csv_file \o clean_data]_vars

\* A run fetched two quotes, one of them already stored, and has saved the
\* other.
C23_Witness ==
    /\ run_pc = "alert"
    /\ Len(raw_data) = 2
    /\ ~HasNullPrice(raw_data)
    /\ MissingColumns(raw_data) = {}
    /\ Len(clean_data) = 1
    /\ run_saved = 1
    /\ Len(market_data) = 2

\* C24: a fetched batch from which a mandatory column is missing aborts the
\* run: run returns False (exit status 1) with the error of cleaning, and
\* no step of that run changes the store or the flat file.
C24_StructuralErrorAbortsRun ==
    /\ []((Finished /\ raw_data # <<>> /\ MissingColumns(raw_data) # {})
            => /\ success = "False"
               /\ run_error = "ValueError: Missing required columns"
               /\ run_pc = "exited" => exit_status = 1)
    /\ [][(raw_data' # <<>> /\ MissingColumns(raw_data') # {})
            => /\ market_data' = market_data
               /\ csv_file' = csv_file]_vars

\* A run whose batch lacks a mandatory column has exited with status 1.
C24_Witness ==
    /\ run_pc = "exited"
    /\ raw_data # <<>>
    /\ MissingColumns(raw_data) # {}
    /\ exit_status = 1
    /\ csv_file = <<>>

-----------------------------------------------------------------------------
(* Properties of transform_market_data (SpecTransform)                     *)

\* The valid records of the batch that share the key of the cleaned row o.
GroupOf(o) ==
    {i \in 1..Len(raw_data) :
        /\ Positive(to_numeric(raw_data[i].price))
        /\ raw_data[i].symbol = Str(o.symbol)
        /\ normalize_timestamp(raw_data[i].timestamp, now) = o.timestamp}

Earliest(S) == CHOOSE i \in S : \A j \in S : i <= j

\* C27: first-seen-in-batch wins across clean followed by dedupe: every
\* row of the result is the earliest record of the raw batch among the
\* valid records that share its (symbol, normalized timestamp).
C27_FirstSeenWinsAcrossTransform ==
    dd_pc = "done" =>
        \A k \in 1..Len(dd_out) :
            /\ GroupOf(dd_out[k]) # {}
            /\ dd_out[k].price = to_numeric(raw_data[Earliest(GroupOf(dd_out[k]))].price)

=============================================================================
